---- MODULE Spec2Model ----
(***************************************************************************)
(* Telemetry-F1-2021: the ctypes packet schema (packets.py), the registry  *)
(* HEADER_FIELD_TO_PACKET_TYPE, TelemetryListener (listener.py) and the    *)
(* two console entry points main and save_packets (main.py).               *)
(*                                                                         *)
(* Representation of Python values (every value carries its Python type in *)
(* the field py, as _format_type dispatches on it):                        *)
(*   int    [py |-> "int", v |-> n]         for 8 and 16 bit fields        *)
(*          [py |-> "int", digits |-> s]    for 32 and 64 bit fields: the  *)
(*              base 65536 digits of the number, least significant first   *)
(*              (the numbers exceed the range of TLC's integers)           *)
(*   float  [py |-> "float", kind |-> "finite", neg, exp, frac]: the       *)
(*              number (-1)^neg * 1.frac * 2^exp, frac the fraction bits,  *)
(*              most significant first, trailing zeros removed;            *)
(*              kind "zero", "inf", "nan" for the other IEEE values;       *)
(*              kind "decimal" (neg, whole, milli) for a result of round() *)
(*   bytes  [py |-> "bytes", b |-> s]                                      *)
(*   str    [py |-> "str", cp |-> s]        the code points                *)
(*   ctypes Structure, Union: [py |-> "cdata", cls |-> name, raw |-> s],   *)
(*              the instance's own buffer, as ctypes keeps it              *)
(*   ctypes Array: [py |-> "Array", items |-> s]                           *)
(*   list   [py |-> "list", items |-> s]                                   *)
(*   dict   [py |-> "dict", d |-> function from the keys]                  *)
(*   a raised exception: [py |-> "raise", exc |-> name]                    *)
(***************************************************************************)
EXTENDS Integers, Sequences, FiniteSets, TLC

Min(a, b) == IF a < b THEN a ELSE b
Max(a, b) == IF a > b THEN a ELSE b

\* 2^n for the small n used by the codecs
RECURSIVE Pow2(_)
Pow2(n) == IF n = 0 THEN 1 ELSE 2 * Pow2(n - 1)

\* One row of a _fields_ list: (name, ctype) with count = n for `ctype * n`,
\* count = 0 for a scalar field.
F(name, ctype, count) == [name |-> name, ctype |-> ctype, count |-> count]

(***************************************************************************)
(* The schema: the _fields_ list of every class of packets.py.             *)
(***************************************************************************)
\* packets.py:112-128  class PacketHeader  (_fields_ of a ctypes Structure)
PacketHeader ==
    << F("m_packet_format", "c_uint16", 0),
       F("m_game_major_version", "c_uint8", 0),
       F("m_game_minor_version", "c_uint8", 0),
       F("m_packet_version", "c_uint8", 0),
       F("m_packet_id", "c_uint8", 0),
       F("m_session_uid", "c_uint64", 0),
       F("m_session_time", "c_float", 0),
       F("m_frame_identifier", "c_uint32", 0),
       F("m_player_car_index", "c_uint8", 0),
       F("m_secondary_player_car_index", "c_uint8", 0) >>

\* packets.py:131-157  class CarMotionData  (_fields_ of a ctypes Structure)
CarMotionData ==
    << F("m_world_position_x", "c_float", 0),
       F("m_world_position_y", "c_float", 0),
       F("m_world_position_z", "c_float", 0),
       F("m_world_velocity_x", "c_float", 0),
       F("m_world_velocity_y", "c_float", 0),
       F("m_world_velocity_z", "c_float", 0),
       F("m_world_forward_dir_x", "c_int16", 0),
       F("m_world_forward_dir_y", "c_int16", 0),
       F("m_world_forward_dir_z", "c_int16", 0),
       F("m_world_right_dir_x", "c_int16", 0),
       F("m_world_right_dir_y", "c_int16", 0),
       F("m_world_right_dir_z", "c_int16", 0),
       F("m_g_force_lateral", "c_float", 0),
       F("m_g_force_longitudinal", "c_float", 0),
       F("m_g_force_vertical", "c_float", 0),
       F("m_yaw", "c_float", 0),
       F("m_pitch", "c_float", 0),
       F("m_roll", "c_float", 0) >>

\* (mutation) the motion packet with four wheel arrays, m_wheel_slip left out
PacketMotionData_four_arrays ==
    << F("m_header", "PacketHeader", 0),
       F("m_car_motion_data", "CarMotionData", 22),
       F("m_suspension_position", "c_float", 4),
       F("m_suspension_velocity", "c_float", 4),
       F("m_suspension_acceleration", "c_float", 4),
       F("m_wheel_speed", "c_float", 4),
       F("m_local_velocity_x", "c_float", 0),
       F("m_local_velocity_y", "c_float", 0),
       F("m_local_velocity_z", "c_float", 0),
       F("m_angular_velocity_x", "c_float", 0),
       F("m_angular_velocity_y", "c_float", 0),
       F("m_angular_velocity_z", "c_float", 0),
       F("m_angular_acceleration_x", "c_float", 0),
       F("m_angular_acceleration_y", "c_float", 0),
       F("m_angular_acceleration_z", "c_float", 0),
       F("m_front_wheels_angle", "c_float", 0) >>

\* packets.py:160-182  class PacketMotionData  (_fields_ of a ctypes Structure)
PacketMotionData ==
    << F("m_header", "PacketHeader", 0),
       F("m_car_motion_data", "CarMotionData", 22),
       F("m_suspension_position", "c_float", 4),
       F("m_suspension_velocity", "c_float", 4),
       F("m_suspension_acceleration", "c_float", 4),
       F("m_wheel_speed", "c_float", 4),
       F("m_wheel_slip", "c_float", 4),
       F("m_local_velocity_x", "c_float", 0),
       F("m_local_velocity_y", "c_float", 0),
       F("m_local_velocity_z", "c_float", 0),
       F("m_angular_velocity_x", "c_float", 0),
       F("m_angular_velocity_y", "c_float", 0),
       F("m_angular_velocity_z", "c_float", 0),
       F("m_angular_acceleration_x", "c_float", 0),
       F("m_angular_acceleration_y", "c_float", 0),
       F("m_angular_acceleration_z", "c_float", 0),
       F("m_front_wheels_angle", "c_float", 0) >>

\* packets.py:185-191  class MarshalZone  (_fields_ of a ctypes Structure)
MarshalZone ==
    << F("m_zone_start", "c_float", 0),
       F("m_zone_flag", "c_int8", 0) >>

\* packets.py:194-211  class WeatherForecastSample  (_fields_ of a ctypes Structure)
WeatherForecastSample ==
    << F("m_session_type", "c_uint8", 0),
       F("m_time_offset", "c_uint8", 0),
       F("m_weather", "c_uint8", 0),
       F("m_track_temperature", "c_int8", 0),
       F("m_track_temperature_change", "c_int8", 0),
       F("m_air_temperature", "c_int8", 0),
       F("m_air_temperature_change", "c_int8", 0),
       F("m_rain_percentage", "c_uint8", 0) >>

\* packets.py:214-274  class PacketSessionData  (_fields_ of a ctypes Structure)
PacketSessionData ==
    << F("m_header", "PacketHeader", 0),
       F("m_weather", "c_uint8", 0),
       F("m_track_temperature", "c_int8", 0),
       F("m_air_temperature", "c_int8", 0),
       F("m_total_laps", "c_uint8", 0),
       F("m_track_length", "c_uint16", 0),
       F("m_session_type", "c_uint8", 0),
       F("m_track_id", "c_int8", 0),
       F("m_formula", "c_uint8", 0),
       F("m_session_time_left", "c_uint16", 0),
       F("m_session_duration", "c_uint16", 0),
       F("m_pit_speed_limit", "c_uint8", 0),
       F("m_game_paused", "c_uint8", 0),
       F("m_is_spectating", "c_uint8", 0),
       F("m_spectator_car_index", "c_uint8", 0),
       F("m_sli_pro_native_support", "c_uint8", 0),
       F("m_num_marshal_zones", "c_uint8", 0),
       F("m_marshal_zones", "MarshalZone", 21),
       F("m_safety_car_status", "c_uint8", 0),
       F("m_network_game", "c_uint8", 0),
       F("m_num_weather_forecast_samples", "c_uint8", 0),
       F("m_weather_forecast_samples", "WeatherForecastSample", 56),
       F("m_forecast_accuracy", "c_uint8", 0),
       F("m_ai_difficulty", "c_uint8", 0),
       F("m_season_link_identifier", "c_uint32", 0),
       F("m_weekend_link_identifier", "c_uint32", 0),
       F("m_session_link_identifier", "c_uint32", 0),
       F("m_pit_stop_window_ideal_lap", "c_uint8", 0),
       F("m_pit_stop_window_latest_lap", "c_uint8", 0),
       F("m_pit_stop_rejoin_position", "c_uint8", 0),
       F("m_steering_assist", "c_uint8", 0),
       F("m_braking_assist", "c_uint8", 0),
       F("m_gearbox_assist", "c_uint8", 0),
       F("m_pit_assist", "c_uint8", 0),
       F("m_pit_release_assist", "c_uint8", 0),
       F("m_ersassist", "c_uint8", 0),
       F("m_drsassist", "c_uint8", 0),
       F("m_dynamic_racing_line", "c_uint8", 0),
       F("m_dynamic_racing_line_type", "c_uint8", 0) >>

\* packets.py:277-322  class LapData  (_fields_ of a ctypes Structure)
LapData ==
    << F("m_last_lap_time_in_ms", "c_uint32", 0),
       F("m_current_lap_time_in_ms", "c_uint32", 0),
       F("m_sector1_time_in_ms", "c_uint16", 0),
       F("m_sector2_time_in_ms", "c_uint16", 0),
       F("m_lap_distance", "c_float", 0),
       F("m_total_distance", "c_float", 0),
       F("m_safety_car_delta", "c_float", 0),
       F("m_car_position", "c_uint8", 0),
       F("m_current_lap_num", "c_uint8", 0),
       F("m_pit_status", "c_uint8", 0),
       F("m_num_pit_stops", "c_uint8", 0),
       F("m_sector", "c_uint8", 0),
       F("m_current_lap_invalid", "c_uint8", 0),
       F("m_penalties", "c_uint8", 0),
       F("m_warnings", "c_uint8", 0),
       F("m_num_unserved_drive_through_pens", "c_uint8", 0),
       F("m_num_unserved_stop_go_pens", "c_uint8", 0),
       F("m_grid_position", "c_uint8", 0),
       F("m_driver_status", "c_uint8", 0),
       F("m_result_status", "c_uint8", 0),
       F("m_pit_lane_timer_active", "c_uint8", 0),
       F("m_pit_lane_time_in_lane_in_ms", "c_uint16", 0),
       F("m_pit_stop_timer_in_ms", "c_uint16", 0),
       F("m_pit_stop_should_serve_pen", "c_uint8", 0) >>

\* packets.py:325-329  class PacketLapData  (_fields_ of a ctypes Structure)
PacketLapData ==
    << F("m_header", "PacketHeader", 0),
       F("m_lap_data", "LapData", 22) >>

\* packets.py:332-336  class FastestLap  (_fields_ of a ctypes Structure)
FastestLap ==
    << F("m_vehicle_idx", "c_uint8", 0),
       F("m_lap_time", "c_float", 0) >>

\* packets.py:339-342  class Retirement  (_fields_ of a ctypes Structure)
Retirement ==
    << F("m_vehicle_idx", "c_uint8", 0) >>

\* packets.py:345-348  class TeamMateInPits  (_fields_ of a ctypes Structure)
TeamMateInPits ==
    << F("m_vehicle_idx", "c_uint8", 0) >>

\* packets.py:351-354  class RaceWinner  (_fields_ of a ctypes Structure)
RaceWinner ==
    << F("m_vehicle_idx", "c_uint8", 0) >>

\* packets.py:357-369  class Penalty  (_fields_ of a ctypes Structure)
Penalty ==
    << F("m_penalty_type", "c_uint8", 0),
       F("m_infringement_type", "c_uint8", 0),
       F("m_vehicle_idx", "c_uint8", 0),
       F("m_other_vehicle_idx", "c_uint8", 0),
       F("m_time", "c_uint8", 0),
       F("m_lap_num", "c_uint8", 0),
       F("m_places_gained", "c_uint8", 0) >>

\* packets.py:372-381  class SpeedTrap  (_fields_ of a ctypes Structure)
SpeedTrap ==
    << F("m_vehicle_idx", "c_uint8", 0),
       F("m_speed", "c_float", 0),
       F("m_overall_fastest_in_session", "c_uint8", 0),
       F("m_driver_fastest_in_session", "c_uint8", 0) >>

\* packets.py:384-387  class StartLights  (_fields_ of a ctypes Structure)
StartLights ==
    << F("m_num_lights", "c_uint8", 0) >>

\* packets.py:390-394  class DriveThroughPenaltyServed  (_fields_ of a ctypes Structure)
DriveThroughPenaltyServed ==
    << F("m_vehicle_idx", "c_uint8", 0) >>

\* packets.py:397-401  class StopGoPenaltyServed  (_fields_ of a ctypes Structure)
StopGoPenaltyServed ==
    << F("m_vehicle_idx", "c_uint8", 0) >>

\* packets.py:404-409  class Flashback  (_fields_ of a ctypes Structure)
Flashback ==
    << F("m_flashback_frame_identifier", "c_uint32", 0),
       F("m_flashback_session_time", "c_float", 0) >>

\* packets.py:412-417  class Buttons  (_fields_ of a ctypes Structure)
Buttons ==
    << F("m_button_status", "c_uint32", 0) >>

\* packets.py:420-433  class EventDataDetails  (_fields_ of a ctypes Union)
EventDataDetails ==
    << F("m_fastest_lap", "FastestLap", 0),
       F("m_retirement", "Retirement", 0),
       F("m_team_mate_in_pits", "TeamMateInPits", 0),
       F("m_race_winner", "RaceWinner", 0),
       F("m_penalty", "Penalty", 0),
       F("m_speed_trap", "SpeedTrap", 0),
       F("m_start_lights", "StartLights", 0),
       F("m_drive_through_penalty_served", "DriveThroughPenaltyServed", 0),
       F("m_stop_go_penalty_served", "StopGoPenaltyServed", 0),
       F("m_flashback", "Flashback", 0),
       F("m_buttons", "Buttons", 0) >>

\* packets.py:436-443  class PacketEventData  (_fields_ of a ctypes Structure)
PacketEventData ==
    << F("m_header", "PacketHeader", 0),
       F("m_event_string_code", "c_uint8", 4),
       F("m_event_details", "EventDataDetails", 0) >>

\* packets.py:446-463  class ParticipantData  (_fields_ of a ctypes Structure)
ParticipantData ==
    << F("m_ai_controlled", "c_uint8", 0),
       F("m_driver_id", "c_uint8", 0),
       F("m_network_id", "c_uint8", 0),
       F("m_team_id", "c_uint8", 0),
       F("m_my_team", "c_uint8", 0),
       F("m_race_number", "c_uint8", 0),
       F("m_nationality", "c_uint8", 0),
       F("m_name", "c_char", 48),
       F("m_your_telemetry", "c_uint8", 0) >>

\* packets.py:466-473  class PacketParticipantsData  (_fields_ of a ctypes Structure)
PacketParticipantsData ==
    << F("m_header", "PacketHeader", 0),
       F("m_num_active_cars", "c_uint8", 0),
       F("m_participants", "ParticipantData", 22) >>

\* packets.py:476-505  class CarSetupData  (_fields_ of a ctypes Structure)
CarSetupData ==
    << F("m_front_wing", "c_uint8", 0),
       F("m_rear_wing", "c_uint8", 0),
       F("m_on_throttle", "c_uint8", 0),
       F("m_off_throttle", "c_uint8", 0),
       F("m_front_camber", "c_float", 0),
       F("m_rear_camber", "c_float", 0),
       F("m_front_toe", "c_float", 0),
       F("m_rear_toe", "c_float", 0),
       F("m_front_suspension", "c_uint8", 0),
       F("m_rear_suspension", "c_uint8", 0),
       F("m_front_anti_roll_bar", "c_uint8", 0),
       F("m_rear_anti_roll_bar", "c_uint8", 0),
       F("m_front_suspension_height", "c_uint8", 0),
       F("m_rear_suspension_height", "c_uint8", 0),
       F("m_brake_pressure", "c_uint8", 0),
       F("m_brake_bias", "c_uint8", 0),
       F("m_rear_left_tyre_pressure", "c_float", 0),
       F("m_rear_right_tyre_pressure", "c_float", 0),
       F("m_front_left_tyre_pressure", "c_float", 0),
       F("m_front_right_tyre_pressure", "c_float", 0),
       F("m_ballast", "c_uint8", 0),
       F("m_fuel_load", "c_float", 0) >>

\* packets.py:508-512  class PacketCarSetupData  (_fields_ of a ctypes Structure)
PacketCarSetupData ==
    << F("m_header", "PacketHeader", 0),
       F("m_car_setups", "CarSetupData", 22) >>

\* packets.py:515-537  class CarTelemetryData  (_fields_ of a ctypes Structure)
CarTelemetryData ==
    << F("m_speed", "c_uint16", 0),
       F("m_throttle", "c_float", 0),
       F("m_steer", "c_float", 0),
       F("m_brake", "c_float", 0),
       F("m_clutch", "c_uint8", 0),
       F("m_gear", "c_int8", 0),
       F("m_engine_rpm", "c_uint16", 0),
       F("m_drs", "c_uint8", 0),
       F("m_rev_lights_percent", "c_uint8", 0),
       F("m_rev_lights_bit_value", "c_uint16", 0),
       F("m_brakes_temperature", "c_uint16", 4),
       F("m_tyres_surface_temperature", "c_uint8", 4),
       F("m_tyres_inner_temperature", "c_uint8", 4),
       F("m_engine_temperature", "c_uint16", 0),
       F("m_tyres_pressure", "c_float", 4),
       F("m_surface_type", "c_uint8", 4) >>

\* packets.py:540-552  class PacketCarTelemetryData  (_fields_ of a ctypes Structure)
PacketCarTelemetryData ==
    << F("m_header", "PacketHeader", 0),
       F("m_car_telemetry_data", "CarTelemetryData", 22),
       F("m_mfd_panel_index", "c_uint8", 0),
       F("m_mfd_panel_index_secondary_player", "c_uint8", 0),
       F("m_suggested_gear", "c_int8", 0) >>

\* packets.py:555-603  class CarStatusData  (_fields_ of a ctypes Structure)
CarStatusData ==
    << F("m_traction_control", "c_uint8", 0),
       F("m_anti_lock_brakes", "c_uint8", 0),
       F("m_fuel_mix", "c_uint8", 0),
       F("m_front_brake_bias", "c_uint8", 0),
       F("m_pit_limiter_status", "c_uint8", 0),
       F("m_fuel_in_tank", "c_float", 0),
       F("m_fuel_capacity", "c_float", 0),
       F("m_fuel_remaining_laps", "c_float", 0),
       F("m_max_rpm", "c_uint16", 0),
       F("m_idle_rpm", "c_uint16", 0),
       F("m_max_gears", "c_uint8", 0),
       F("m_drs_allowed", "c_uint8", 0),
       F("m_drs_activation_distance", "c_uint16", 0),
       F("m_actual_tyre_compound", "c_uint8", 0),
       F("m_visual_tyre_compound", "c_uint8", 0),
       F("m_tyres_age_laps", "c_uint8", 0),
       F("m_vehicle_fia_flags", "c_int8", 0),
       F("m_ers_store_energy", "c_float", 0),
       F("m_ers_deploy_mode", "c_uint8", 0),
       F("m_ers_harvested_this_lap_mguk", "c_float", 0),
       F("m_ers_harvested_this_lap_mguh", "c_float", 0),
       F("m_ers_deployed_this_lap", "c_float", 0),
       F("m_network_paused", "c_uint8", 0) >>

\* packets.py:606-610  class PacketCarStatusData  (_fields_ of a ctypes Structure)
PacketCarStatusData ==
    << F("m_header", "PacketHeader", 0),
       F("m_car_status_data", "CarStatusData", 22) >>

\* packets.py:613-636  class FinalClassificationData  (_fields_ of a ctypes Structure)
FinalClassificationData ==
    << F("m_position", "c_uint8", 0),
       F("m_num_laps", "c_uint8", 0),
       F("m_grid_position", "c_uint8", 0),
       F("m_points", "c_uint8", 0),
       F("m_num_pit_stops", "c_uint8", 0),
       F("m_result_status", "c_uint8", 0),
       F("m_best_lap_time_in_ms", "c_uint32", 0),
       F("m_total_race_time", "c_double", 0),
       F("m_penalties_time", "c_uint8", 0),
       F("m_num_penalties", "c_uint8", 0),
       F("m_num_tyre_stints", "c_uint8", 0),
       F("m_tyre_stints_actual", "c_uint8", 8),
       F("m_tyre_stints_visual", "c_uint8", 8) >>

\* packets.py:639-644  class PacketFinalClassificationData  (_fields_ of a ctypes Structure)
PacketFinalClassificationData ==
    << F("m_header", "PacketHeader", 0),
       F("m_num_cars", "c_uint8", 0),
       F("m_classification_data", "FinalClassificationData", 22) >>

\* packets.py:647-659  class LobbyInfoData  (_fields_ of a ctypes Structure)
LobbyInfoData ==
    << F("m_ai_controlled", "c_uint8", 0),
       F("m_team_id", "c_uint8", 0),
       F("m_nationality", "c_uint8", 0),
       F("m_name", "c_char", 48),
       F("m_car_number", "c_uint8", 0),
       F("m_ready_status", "c_uint8", 0) >>

\* packets.py:662-668  class PacketLobbyInfoData  (_fields_ of a ctypes Structure)
PacketLobbyInfoData ==
    << F("m_header", "PacketHeader", 0),
       F("m_num_players", "c_uint8", 0),
       F("m_lobby_players", "LobbyInfoData", 22) >>

\* packets.py:671-693  class CarDamageData  (_fields_ of a ctypes Structure)
CarDamageData ==
    << F("m_tyres_wear", "c_float", 4),
       F("m_tyres_damage", "c_uint8", 4),
       F("m_brakes_damage", "c_uint8", 4),
       F("m_front_left_wing_damage", "c_uint8", 0),
       F("m_front_right_wing_damage", "c_uint8", 0),
       F("m_rear_wing_damage", "c_uint8", 0),
       F("m_floor_damage", "c_uint8", 0),
       F("m_diffuser_damage", "c_uint8", 0),
       F("m_sidepod_damage", "c_uint8", 0),
       F("m_drs_fault", "c_uint8", 0),
       F("m_gear_box_damage", "c_uint8", 0),
       F("m_engine_damage", "c_uint8", 0),
       F("m_engine_mguhwear", "c_uint8", 0),
       F("m_engine_eswear", "c_uint8", 0),
       F("m_engine_cewear", "c_uint8", 0),
       F("m_engine_icewear", "c_uint8", 0),
       F("m_engine_mgukwear", "c_uint8", 0),
       F("m_engine_tcwear", "c_uint8", 0) >>

\* packets.py:696-700  class PacketCarDamageData  (_fields_ of a ctypes Structure)
PacketCarDamageData ==
    << F("m_header", "PacketHeader", 0),
       F("m_car_damage_data", "CarDamageData", 22) >>

\* packets.py:703-712  class LapHistoryData  (_fields_ of a ctypes Structure)
LapHistoryData ==
    << F("m_lap_time_in_ms", "c_uint32", 0),
       F("m_sector1_time_in_ms", "c_uint16", 0),
       F("m_sector2_time_in_ms", "c_uint16", 0),
       F("m_sector3_time_in_ms", "c_uint16", 0),
       F("m_lap_valid_bit_flags", "c_uint8", 0) >>

\* packets.py:715-721  class TyreStintHistoryData  (_fields_ of a ctypes Structure)
TyreStintHistoryData ==
    << F("m_end_lap", "c_uint8", 0),
       F("m_tyre_actual_compound", "c_uint8", 0),
       F("m_tyre_visual_compound", "c_uint8", 0) >>

\* packets.py:724-741  class PacketSessionHistoryData  (_fields_ of a ctypes Structure)
PacketSessionHistoryData ==
    << F("m_header", "PacketHeader", 0),
       F("m_car_idx", "c_uint8", 0),
       F("m_num_laps", "c_uint8", 0),
       F("m_num_tyre_stints", "c_uint8", 0),
       F("m_best_lap_time_lap_num", "c_uint8", 0),
       F("m_best_sector1_lap_num", "c_uint8", 0),
       F("m_best_sector2_lap_num", "c_uint8", 0),
       F("m_best_sector3_lap_num", "c_uint8", 0),
       F("m_lap_history_data", "LapHistoryData", 100),
       F("m_tyre_stints_history_data", "TyreStintHistoryData", 8) >>

\* The classes of packets.py that carry a _fields_ list
Classes ==
    { "PacketHeader", "CarMotionData", "PacketMotionData", "MarshalZone",
      "WeatherForecastSample", "PacketSessionData", "LapData", "PacketLapData",
      "FastestLap", "Retirement", "TeamMateInPits", "RaceWinner", "Penalty",
      "SpeedTrap", "StartLights", "DriveThroughPenaltyServed",
      "StopGoPenaltyServed", "Flashback", "Buttons", "EventDataDetails",
      "PacketEventData", "ParticipantData", "PacketParticipantsData",
      "CarSetupData", "PacketCarSetupData", "CarTelemetryData",
      "PacketCarTelemetryData", "CarStatusData", "PacketCarStatusData",
      "FinalClassificationData", "PacketFinalClassificationData",
      "LobbyInfoData", "PacketLobbyInfoData", "CarDamageData",
      "PacketCarDamageData", "LapHistoryData", "TyreStintHistoryData",
      "PacketSessionHistoryData" }

\* cls._fields_
Fields(cls) ==
    CASE cls = "PacketHeader" -> PacketHeader
      [] cls = "CarMotionData" -> CarMotionData
      [] cls = "PacketMotionData" -> PacketMotionData
      [] cls = "MarshalZone" -> MarshalZone
      [] cls = "WeatherForecastSample" -> WeatherForecastSample
      [] cls = "PacketSessionData" -> PacketSessionData
      [] cls = "LapData" -> LapData
      [] cls = "PacketLapData" -> PacketLapData
      [] cls = "FastestLap" -> FastestLap
      [] cls = "Retirement" -> Retirement
      [] cls = "TeamMateInPits" -> TeamMateInPits
      [] cls = "RaceWinner" -> RaceWinner
      [] cls = "Penalty" -> Penalty
      [] cls = "SpeedTrap" -> SpeedTrap
      [] cls = "StartLights" -> StartLights
      [] cls = "DriveThroughPenaltyServed" -> DriveThroughPenaltyServed
      [] cls = "StopGoPenaltyServed" -> StopGoPenaltyServed
      [] cls = "Flashback" -> Flashback
      [] cls = "Buttons" -> Buttons
      [] cls = "EventDataDetails" -> EventDataDetails
      [] cls = "PacketEventData" -> PacketEventData
      [] cls = "ParticipantData" -> ParticipantData
      [] cls = "PacketParticipantsData" -> PacketParticipantsData
      [] cls = "CarSetupData" -> CarSetupData
      [] cls = "PacketCarSetupData" -> PacketCarSetupData
      [] cls = "CarTelemetryData" -> CarTelemetryData
      [] cls = "PacketCarTelemetryData" -> PacketCarTelemetryData
      [] cls = "CarStatusData" -> CarStatusData
      [] cls = "PacketCarStatusData" -> PacketCarStatusData
      [] cls = "FinalClassificationData" -> FinalClassificationData
      [] cls = "PacketFinalClassificationData" -> PacketFinalClassificationData
      [] cls = "LobbyInfoData" -> LobbyInfoData
      [] cls = "PacketLobbyInfoData" -> PacketLobbyInfoData
      [] cls = "CarDamageData" -> CarDamageData
      [] cls = "PacketCarDamageData" -> PacketCarDamageData
      [] cls = "LapHistoryData" -> LapHistoryData
      [] cls = "TyreStintHistoryData" -> TyreStintHistoryData
      [] cls = "PacketSessionHistoryData" -> PacketSessionHistoryData

\* class EventDataDetails(ctypes.Union, PacketMixin): the one Union
IsUnion(cls) == cls = "EventDataDetails"

\* isinstance(x, Packet): every class but the Union derives from Packet
IsPacket(cls) == cls \in Classes /\ ~IsUnion(cls)

(***************************************************************************)
(* Binary layout, as ctypes lays out a LittleEndianStructure / Union.      *)
(***************************************************************************)
\* ctypes.sizeof of the simple types the schema uses
PrimSize(ct) ==
    CASE ct = "c_uint8" -> 1 [] ct = "c_int8" -> 1 [] ct = "c_char" -> 1
      [] ct = "c_uint16" -> 2 [] ct = "c_int16" -> 2
      [] ct = "c_uint32" -> 4 [] ct = "c_float" -> 4
      [] ct = "c_uint64" -> 8 [] ct = "c_double" -> 8

IsPrim(ct) == ct \notin Classes

\* (mutation) every class laid out without _pack_, its fields on their
\* natural alignment
PackOf_natural(cls) == 0

\* Packet._pack_ = 1 is inherited by every Structure; the Union declares no
\* _pack_ (0: natural alignment of its members).
PackOf(cls) == IF IsUnion(cls) THEN 0 ELSE 1

RoundUp(n, a) == ((n + a - 1) \div a) * a

RECURSIVE AlignOf(_), SizeOf(_), FieldAlign(_, _), MaxAlign(_, _, _), EndRange(_, _, _, _), MaxEnd(_, _, _)

\* alignment of field i of cls: the type's own, capped by _pack_
FieldAlign(cls, i) ==
    LET a == AlignOf(Fields(cls)[i].ctype)
    IN  IF PackOf(cls) > 0 THEN Min(PackOf(cls), a) ELSE a

\* largest field alignment among the fields lo..hi (halving keeps the
\* evaluation shallow)
MaxAlign(cls, lo, hi) ==
    IF lo > hi THEN 1
    ELSE IF lo = hi THEN FieldAlign(cls, lo)
    ELSE LET mid == (lo + hi) \div 2
         IN  Max(MaxAlign(cls, lo, mid), MaxAlign(cls, mid + 1, hi))

AlignOf(ct) == IF IsPrim(ct) THEN PrimSize(ct) ELSE MaxAlign(ct, 1, Len(Fields(ct)))

\* bytes taken by field i (an array field: count elements)
FieldSize(cls, i) ==
    LET f == Fields(cls)[i]
    IN  SizeOf(f.ctype) * (IF f.count = 0 THEN 1 ELSE f.count)

\* first byte after the fields lo..hi of a Structure when field lo is laid
\* out from byte off on: each field goes to the next multiple of its
\* alignment
EndRange(cls, lo, hi, off) ==
    IF lo > hi THEN off
    ELSE IF lo = hi THEN RoundUp(off, FieldAlign(cls, lo)) + FieldSize(cls, lo)
    ELSE LET mid == (lo + hi) \div 2
             e   == EndRange(cls, lo, mid, off)
         IN  IF e >= 0 THEN EndRange(cls, mid + 1, hi, e) ELSE e

\* byte offset of field i in cls: every member of a Union sits at 0
OffsetOf(cls, i) ==
    IF IsUnion(cls) THEN 0
    ELSE RoundUp(EndRange(cls, 1, i - 1, 0), FieldAlign(cls, i))

\* size of the widest of the members lo..hi of a Union
MaxEnd(cls, lo, hi) ==
    IF lo > hi THEN 0
    ELSE IF lo = hi THEN FieldSize(cls, lo)
    ELSE LET mid == (lo + hi) \div 2
         IN  Max(MaxEnd(cls, lo, mid), MaxEnd(cls, mid + 1, hi))

\* ctypes.sizeof
SizeOf(ct) ==
    IF IsPrim(ct) THEN PrimSize(ct)
    ELSE LET n == Len(Fields(ct))
         IN  RoundUp(IF IsUnion(ct) THEN MaxEnd(ct, 1, n) ELSE EndRange(ct, 1, n, 0),
                     AlignOf(ct))

\* What the import of packets.py leaves in every class object: its
\* _fields_, and the size and field offsets ctypes computed for it when the
\* class statement ran.
Layout ==
    [c \in Classes |->
        [fields |-> Fields(c),
         size |-> SizeOf(c),
         offsets |-> [i \in 1..Len(Fields(c)) |-> OffsetOf(c, i)]]]

\* the class objects of the running process
VARIABLE classes

\* PacketMixin.size: ctypes.sizeof(cls)
size(cls) == classes[cls].size

\* index of the field called name in cls._fields_
FieldIndex(cls, name) ==
    CHOOSE i \in 1..Len(classes[cls].fields) : classes[cls].fields[i].name = name

FieldNames(cls) == {classes[cls].fields[i].name : i \in 1..Len(classes[cls].fields)}

(***************************************************************************)
(* Python values read from and written to the bytes of a ctypes instance.  *)
(***************************************************************************)

\* bit j (0 = least significant) of the byte v
BitAt(v, j) == (v \div Pow2(j)) % 2

\* a sequence of n zeros
Zeros(n) == [k \in 1..n |-> 0]

\* index of the first 1 of a bit sequence, 0 when there is none
FirstOne(bits) ==
    IF \A i \in 1..Len(bits) : bits[i] = 0 THEN 0
    ELSE CHOOSE i \in 1..Len(bits) : bits[i] = 1 /\ \A j \in 1..(i - 1) : bits[j] = 0

\* index of the last 1 of a bit sequence, 0 when there is none
LastOne(bits) ==
    IF \A i \in 1..Len(bits) : bits[i] = 0 THEN 0
    ELSE CHOOSE i \in 1..Len(bits) : bits[i] = 1 /\ \A j \in (i + 1)..Len(bits) : bits[j] = 0

\* the bit sequence without its trailing zeros
Strip(bits) == SubSeq(bits, 1, LastOne(bits))

PyInt(n) == [py |-> "int", v |-> n]
PyLong(ds) == [py |-> "int", digits |-> ds]
PyBytes(s) == [py |-> "bytes", b |-> s]
PyStr(s) == [py |-> "str", cp |-> s]
PyList(s) == [py |-> "list", items |-> s]
PyDict(f) == [py |-> "dict", d |-> f]
Raise(e) == [py |-> "raise", exc |-> e]
IsRaise(x) == x.py = "raise"
CData(cls, bytes) == [py |-> "cdata", cls |-> cls, raw |-> bytes]

FloatZero(neg) == [py |-> "float", kind |-> "zero", neg |-> neg]
FloatInf(neg) == [py |-> "float", kind |-> "inf", neg |-> neg]
\* a NaN keeps its sign and the 52 mantissa bits of the double that holds it
FloatNaN(neg, mant) == [py |-> "float", kind |-> "nan", neg |-> neg, mant |-> mant]
FloatFin(neg, exp, frac) ==
    [py |-> "float", kind |-> "finite", neg |-> neg, exp |-> exp, frac |-> frac]

\* The Python float held in an IEEE 754 field: sign neg, biased exponent e,
\* mantissa bits mant (most significant first), exponent bias `bias`.  The
\* NaN of a c_double is taken as it is; the NaN of a c_float is widened to a
\* double, which sets the first mantissa bit (a quiet NaN) and keeps the
\* sign and the other bits.
FromIEEE(neg, e, mant, bias, emax) ==
    IF e = emax
    THEN IF FirstOne(mant) = 0 THEN FloatInf(neg)
         ELSE IF Len(mant) = 52 THEN FloatNaN(neg, mant)
         ELSE FloatNaN(neg, <<1>> \o SubSeq(mant, 2, Len(mant)) \o Zeros(52 - Len(mant)))
    ELSE IF e = 0 THEN
        LET h == FirstOne(mant)
        IN  IF h = 0 THEN FloatZero(neg)
            ELSE FloatFin(neg, 1 - bias - h, Strip(SubSeq(mant, h + 1, Len(mant))))
    ELSE FloatFin(neg, e - bias, Strip(mant))

\* c_float getter: 4 little-endian bytes, 1 sign, 8 exponent, 23 mantissa bits
GetFloat(b) ==
    FromIEEE(b[4] \div 128, (b[4] % 128) * 2 + b[3] \div 128,
             [k \in 1..23 |-> IF k <= 7 THEN BitAt(b[3], 7 - k)
                              ELSE IF k <= 15 THEN BitAt(b[2], 15 - k)
                              ELSE BitAt(b[1], 23 - k)],
             127, 255)

\* c_double getter: 8 little-endian bytes, 1 sign, 11 exponent, 52 mantissa bits
GetDouble(b) ==
    FromIEEE(b[8] \div 128, (b[8] % 128) * 16 + b[7] \div 16,
             [k \in 1..52 |-> IF k <= 4 THEN BitAt(b[7], 4 - k)
                              ELSE BitAt(b[6 - ((k - 5) \div 8)], 7 - ((k - 5) % 8))],
             1023, 2047)

\* The getter of a simple ctype applied to the field's bytes (little-endian)
GetPrim(ct, b) ==
    CASE ct = "c_uint8" -> PyInt(b[1])
      [] ct = "c_int8" -> PyInt(IF b[1] >= 128 THEN b[1] - 256 ELSE b[1])
      [] ct = "c_uint16" -> PyInt(b[1] + 256 * b[2])
      [] ct = "c_int16" ->
            PyInt(IF b[2] >= 128 THEN b[1] + 256 * b[2] - 65536 ELSE b[1] + 256 * b[2])
      [] ct = "c_uint32" -> PyLong(<<b[1] + 256 * b[2], b[3] + 256 * b[4]>>)
      [] ct = "c_uint64" ->
            PyLong(<<b[1] + 256 * b[2], b[3] + 256 * b[4],
                     b[5] + 256 * b[6], b[7] + 256 * b[8]>>)
      [] ct = "c_float" -> GetFloat(b)
      [] ct = "c_double" -> GetDouble(b)
      [] ct = "c_char" -> PyBytes(b)

\* bytes off .. off+n-1 (offsets count from 0) of a buffer
Slice(buf, off, n) == SubSeq(buf, off + 1, off + n)

\* ctypes.sizeof of a field's element type
ElemSize(ct) == IF IsPrim(ct) THEN PrimSize(ct) ELSE classes[ct].size

\* one element of type ct over the bytes b: a Python value for a simple
\* type, an instance over those bytes for a Structure or Union
GetElem(ct, b) == IF IsPrim(ct) THEN GetPrim(ct, b) ELSE CData(ct, b)

\* (mutation) a `c_char * n` field read as all its n bytes
all_bytes(b) == b

\* a `c_char * n` field reads as the bytes before the first NUL
UpToNul(b) ==
    IF \A i \in 1..Len(b) : b[i] # 0 THEN b
    ELSE SubSeq(b, 1, (CHOOSE i \in 1..Len(b) : b[i] = 0 /\ \A j \in 1..(i - 1) : b[j] # 0) - 1)

\* getattr(inst, name) for a field of _fields_
GetAttr(inst, name) ==
    LET i   == FieldIndex(inst.cls, name)
        f   == classes[inst.cls].fields[i]
        off == classes[inst.cls].offsets[i]
        w   == ElemSize(f.ctype)
    IN  IF f.count = 0 THEN GetElem(f.ctype, Slice(inst.raw, off, w))
        ELSE IF f.ctype = "c_char" THEN PyBytes(UpToNul(Slice(inst.raw, off, f.count)))
        ELSE [py |-> "Array", ctype |-> f.ctype,
              items |-> [k \in 1..f.count |->
                            GetElem(f.ctype, Slice(inst.raw, off + (k - 1) * w, w))]]

\* (mutation) pack that drops the NUL bytes at the end of the buffer
pack_rstrip(inst) ==
    SubSeq(inst.raw, 1,
           IF \A k \in 1..Len(inst.raw) : inst.raw[k] = 0 THEN 0
           ELSE CHOOSE k \in 1..Len(inst.raw) :
                    inst.raw[k] # 0 /\ \A j \in (k + 1)..Len(inst.raw) : inst.raw[j] = 0)

\* (mutation) pack that writes zeros over what follows the first shape
\* (FastestLap) in the event details of an event
pack_zero_fill(inst) ==
    IF inst.cls \notin {"PacketEventData", "EventDataDetails"} THEN inst.raw
    ELSE LET keep == (IF inst.cls = "PacketEventData"
                      THEN classes[inst.cls].offsets[FieldIndex(inst.cls, "m_event_details")]
                      ELSE 0) + size("FastestLap")
         IN  [k \in 1..Len(inst.raw) |-> IF k > keep THEN 0 ELSE inst.raw[k]]

\* PacketMixin.pack: bytes(self), the instance's buffer
pack(inst) == inst.raw

\* (mutation) unpack that builds the instance and copies nothing into it
unpack_blank(cls, buffer) ==
    IF Len(buffer) < size(cls) THEN Raise("ValueError")
    ELSE CData(cls, Zeros(size(cls)))

\* (mutation) unpack that wants one byte more than the class takes
unpack_one_more(cls, buffer) ==
    IF Len(buffer) <= size(cls) THEN Raise("ValueError")
    ELSE CData(cls, SubSeq(buffer, 1, size(cls)))

\* (mutation) unpack that fills up a short buffer with zeros
unpack_padded(cls, buffer) ==
    CData(cls, [k \in 1..size(cls) |-> IF k <= Len(buffer) THEN buffer[k] ELSE 0])

\* (mutation) unpack that keeps the whole buffer, the bytes after the
\* class's size included
unpack_whole(cls, buffer) ==
    IF Len(buffer) < size(cls) THEN Raise("ValueError")
    ELSE CData(cls, buffer)

\* PacketMixin.unpack: cls.from_buffer_copy(buffer) copies the first
\* sizeof(cls) bytes, and raises ValueError on a shorter buffer
unpack(cls, buffer) ==
    IF Len(buffer) < size(cls) THEN Raise("ValueError")
    ELSE CData(cls, SubSeq(buffer, 1, size(cls)))
(***************************************************************************)
(* The formatter: to_dict, _format_type, _format_array_type.               *)
(***************************************************************************)
FloatDec(neg, whole, milli) ==
    [py |-> "float", kind |-> "decimal", neg |-> neg, whole |-> whole, milli |-> milli]

\* One binary place of the fraction, from the least significant end: st is
\* the value 1000 * (the places already taken), held as its integer part n,
\* its half bit h and s = 1 when something below the half bit is not zero.
MilliStep(bit, st) ==
    LET m == bit * 1000 + st.n
    IN  [n |-> m \div 2, h |-> m % 2, s |-> IF st.h = 1 \/ st.s = 1 THEN 1 ELSE 0]

\* MilliStep over the places hi, hi-1, ..., lo of bits
RECURSIVE MilliFold(_, _, _, _)
MilliFold(bits, lo, hi, st) ==
    IF lo > hi THEN st
    ELSE IF lo = hi THEN MilliStep(bits[lo], st)
    ELSE LET mid == (lo + hi) \div 2
             t   == MilliFold(bits, mid + 1, hi, st)
         IN  IF t.n >= 0 THEN MilliFold(bits, lo, mid, t) ELSE t

\* the binary number bits (most significant first) plus one
IncBits(bits) ==
    IF \A i \in 1..Len(bits) : bits[i] = 1 THEN <<1>> \o Zeros(Len(bits))
    ELSE LET j == CHOOSE i \in 1..Len(bits) :
                      bits[i] = 0 /\ \A k \in (i + 1)..Len(bits) : bits[k] = 1
         IN  [k \in 1..Len(bits) |-> IF k < j THEN bits[k] ELSE IF k = j THEN 1 ELSE 0]

\* round(value, 3) of a Python float: the exact binary value rounded to
\* three decimal places, ties to the even last digit; inf and nan are
\* returned as they are.  The result is whole + milli/1000, whole in binary.
Round3(x) ==
    IF x.kind \in {"inf", "nan", "decimal"} THEN x
    ELSE IF x.kind = "zero" THEN FloatDec(x.neg, <<>>, 0)
    ELSE
      LET sig   == <<1>> \o x.frac
          L     == Len(sig)
          whole == IF x.exp < 0 THEN <<>>
                   ELSE IF L >= x.exp + 1 THEN SubSeq(sig, 1, x.exp + 1)
                   ELSE sig \o Zeros(x.exp + 1 - L)
          \* places after the binary point; beyond 11 leading zeros the
          \* thousandths are 0 and nothing rounds up
          fr    == IF x.exp < 0 THEN Zeros(Min(-x.exp - 1, 11)) \o sig
                   ELSE SubSeq(sig, x.exp + 2, L)
          st    == MilliFold(fr, 1, Len(fr), [n |-> 0, h |-> 0, s |-> 0])
          up    == st.h = 1 /\ (st.s = 1 \/ st.n % 2 = 1)
          t     == IF up THEN st.n + 1 ELSE st.n
      IN  IF t = 1000 THEN FloatDec(x.neg, IncBits(whole), 0)
          ELSE FloatDec(x.neg, whole, t)

\* UTF-8: 1..4 = a lead byte of a sequence of that length, 0 = a
\* continuation byte, -1 = a byte that never occurs in UTF-8
Utf8Kind(b) ==
    IF b < 128 THEN 1
    ELSE IF b < 192 THEN 0
    ELSE IF b >= 194 /\ b <= 223 THEN 2
    ELSE IF b >= 224 /\ b <= 239 THEN 3
    ELSE IF b >= 240 /\ b <= 244 THEN 4
    ELSE -1

\* the range allowed for the byte after the lead byte b
Utf8Second(b, c) ==
    CASE b = 224 -> c >= 160 /\ c <= 191
      [] b = 237 -> c >= 128 /\ c <= 159
      [] b = 240 -> c >= 144 /\ c <= 191
      [] b = 244 -> c >= 128 /\ c <= 143
      [] OTHER -> c >= 128 /\ c <= 191

Utf8Valid(s) ==
    \A i \in 1..Len(s) :
        LET n == Utf8Kind(s[i])
        IN  /\ n # -1
            /\ n >= 2 =>
                 /\ i + n - 1 <= Len(s)
                 /\ \A j \in (i + 1)..(i + n - 1) : Utf8Kind(s[j]) = 0
                 /\ Utf8Second(s[i], s[i + 1])
            /\ n = 0 =>
                 \E d \in 1..3 :
                    /\ i - d >= 1
                    /\ Utf8Kind(s[i - d]) > d
                    /\ \A j \in (i - d + 1)..(i - 1) : Utf8Kind(s[j]) = 0

\* the code point of the sequence that starts at the lead byte s[i]
Utf8CodePoint(s, i) ==
    LET n == Utf8Kind(s[i])
    IN  CASE n = 1 -> s[i]
          [] n = 2 -> (s[i] - 192) * 64 + (s[i + 1] - 128)
          [] n = 3 -> (s[i] - 224) * 4096 + (s[i + 1] - 128) * 64 + (s[i + 2] - 128)
          [] n = 4 -> (s[i] - 240) * 262144 + (s[i + 1] - 128) * 4096
                      + (s[i + 2] - 128) * 64 + (s[i + 3] - 128)

\* bytes.decode(): strict UTF-8
decode(s) ==
    IF ~Utf8Valid(s) THEN Raise("UnicodeDecodeError")
    ELSE LET leads == {i \in 1..Len(s) : Utf8Kind(s[i]) >= 1}
             at(k) == CHOOSE i \in leads : Cardinality({j \in leads : j <= i}) = k
         IN  PyStr([k \in 1..Cardinality(leads) |-> Utf8CodePoint(s, at(k))])

\* the first exception among the values of a sequence, or none
FirstRaise(items) ==
    IF \A k \in 1..Len(items) : ~IsRaise(items[k]) THEN [py |-> "none"]
    ELSE items[CHOOSE k \in 1..Len(items) :
                    IsRaise(items[k]) /\ \A j \in 1..(k - 1) : ~IsRaise(items[j])]

RECURSIVE to_dict(_), format_type(_), format_array_type(_)

\* packets._format_array_type
format_array_type(value) ==
    LET results == [k \in 1..Len(value.items) |->
                       LET item == value.items[k]
                       IN  IF item.py = "cdata" /\ IsPacket(item.cls)
                           THEN to_dict(item) ELSE item]
        r == FirstRaise(results)
    IN  IF IsRaise(r) THEN r ELSE PyList(results)

\* PacketMixin._format_type
format_type(value) ==
    IF value.py = "float" THEN Round3(value)
    ELSE IF value.py = "bytes" THEN decode(value.b)
    ELSE IF value.py = "Array" THEN format_array_type(value)
    ELSE IF value.py = "cdata" THEN to_dict(value)
    ELSE value

\* PacketMixin.get_value
get_value(inst, field) == format_type(GetAttr(inst, field))

\* PacketMixin.to_dict: one entry per row of _fields_, in that order
to_dict(inst) ==
    LET fs   == classes[inst.cls].fields
        vals == [i \in 1..Len(fs) |-> get_value(inst, fs[i].name)]
        r    == FirstRaise(vals)
    IN  IF IsRaise(r) THEN r
        ELSE PyDict([k \in FieldNames(inst.cls) |-> vals[FieldIndex(inst.cls, k)]])

(***************************************************************************)
(* Field assignment: the ctypes setters write into the instance's buffer.  *)
(***************************************************************************)
\* the number written by bits lo..hi (most significant first, at most 8)
RECURSIVE BitsVal(_, _, _)
BitsVal(bits, lo, hi) ==
    IF lo > hi THEN 0 ELSE 2 * BitsVal(bits, lo, hi - 1) + bits[hi]

\* The IEEE 754 fields of a Python float converted to a format of m
\* mantissa bits: nearest value, ties to even; too large becomes inf.  A
\* NaN is written with its sign: all its 52 mantissa bits in a double, the
\* first 23 of them with the first bit set in a float.
ToIEEE(x, m, bias, emax) ==
    CASE x.kind = "zero" -> [neg |-> x.neg, e |-> 0, mant |-> Zeros(m)]
      [] x.kind = "inf" -> [neg |-> x.neg, e |-> emax, mant |-> Zeros(m)]
      [] x.kind = "nan" ->
           [neg |-> x.neg, e |-> emax,
            mant |-> IF m = 52 THEN x.mant ELSE <<1>> \o SubSeq(x.mant, 2, m)]
      [] x.kind = "finite" ->
           IF x.exp > bias THEN [neg |-> x.neg, e |-> emax, mant |-> Zeros(m)]
           ELSE
             LET sh    == Min(Max(0, 1 - bias - x.exp), m + 2)
                 full  == Zeros(sh) \o <<1>> \o x.frac
                 P     == full \o Zeros(m + 1)
                 field == SubSeq(P, 2, m + 1)
                 rest  == SubSeq(full, m + 2, Len(full))
                 up    == /\ Len(rest) >= 1
                          /\ rest[1] = 1
                          /\ \/ \E j \in 2..Len(rest) : rest[j] = 1
                             \/ field[m] = 1
                 e0    == IF sh > 0 THEN 0 ELSE x.exp + bias
             IN  IF ~up THEN [neg |-> x.neg, e |-> e0, mant |-> field]
                 ELSE IF \A k \in 1..m : field[k] = 1
                      THEN [neg |-> x.neg, e |-> e0 + 1, mant |-> Zeros(m)]
                      ELSE [neg |-> x.neg, e |-> e0, mant |-> IncBits(field)]

\* c_float setter
SetFloat(x) ==
    LET r == ToIEEE(x, 23, 127, 255)
    IN  << BitsVal(r.mant, 16, 23), BitsVal(r.mant, 8, 15),
           (r.e % 2) * 128 + BitsVal(r.mant, 1, 7), r.neg * 128 + r.e \div 2 >>

\* c_double setter
SetDouble(x) ==
    LET r == ToIEEE(x, 52, 1023, 2047)
    IN  << BitsVal(r.mant, 45, 52), BitsVal(r.mant, 37, 44), BitsVal(r.mant, 29, 36),
           BitsVal(r.mant, 21, 28), BitsVal(r.mant, 13, 20), BitsVal(r.mant, 5, 12),
           (r.e % 16) * 16 + BitsVal(r.mant, 1, 4), r.neg * 128 + r.e \div 16 >>

\* the base 65536 digits of a Python int reduced modulo 65536^n (two's
\* complement for a negative int), n of them
Digits(v, n) ==
    IF "digits" \in DOMAIN v
    THEN [k \in 1..n |-> IF k <= Len(v.digits) THEN v.digits[k] ELSE 0]
    ELSE [k \in 1..n |-> IF k = 1 THEN v.v % 65536
                         ELSE IF k = 2 THEN (v.v \div 65536) % 65536
                         ELSE IF v.v >= 0 THEN 0
                         ELSE 65535]

\* The setter of a simple ctype: the little-endian bytes of the value (an
\* int is reduced modulo 2^width, a float converted to the field's format)
SetPrim(ct, v) ==
    CASE ct \in {"c_uint8", "c_int8"} -> <<v.v % 256>>
      [] ct \in {"c_uint16", "c_int16"} -> <<(v.v % 65536) % 256, (v.v % 65536) \div 256>>
      [] ct = "c_uint32" ->
            LET d == Digits(v, 2)
            IN  <<d[1] % 256, d[1] \div 256, d[2] % 256, d[2] \div 256>>
      [] ct = "c_uint64" ->
            LET d == Digits(v, 4)
            IN  <<d[1] % 256, d[1] \div 256, d[2] % 256, d[2] \div 256,
                  d[3] % 256, d[3] \div 256, d[4] % 256, d[4] \div 256>>
      [] ct = "c_float" -> SetFloat(v)
      [] ct = "c_double" -> SetDouble(v)

\* the buffer with bytes b written from offset off on
WriteAt(raw, off, b) ==
    [k \in 1..Len(raw) |-> IF k > off /\ k <= off + Len(b) THEN b[k - off] ELSE raw[k]]

\* A path names a leaf of an instance: a sequence of steps
\* [name |-> field, idx |-> k], idx = 0 for the field itself and k >= 1
\* for element k-1 of an array field.
Step(name, idx) == [name |-> name, idx |-> idx]

RECURSIVE PathOffset(_, _)
\* byte offset of the leaf within an instance of cls
PathOffset(cls, path) ==
    LET i    == FieldIndex(cls, path[1].name)
        f    == classes[cls].fields[i]
        base == classes[cls].offsets[i]
                + (IF path[1].idx > 0 THEN (path[1].idx - 1) * ElemSize(f.ctype) ELSE 0)
    IN  IF Len(path) = 1 THEN base ELSE base + PathOffset(f.ctype, Tail(path))

RECURSIVE PathField(_, _)
\* the row of _fields_ the leaf belongs to
PathField(cls, path) ==
    LET f == classes[cls].fields[FieldIndex(cls, path[1].name)]
    IN  IF Len(path) = 1 THEN f ELSE PathField(f.ctype, Tail(path))

\* inst.<path> = v.  A nested Structure or array element shares the buffer
\* of the instance it is read from, so the bytes of inst change.  A
\* `c_char * n` field takes bytes as a C string: the bytes before their
\* first NUL are copied, one NUL is written after them when they are
\* shorter than the field, and ValueError is raised when they are longer.
SetLeaf(inst, path, v) ==
    LET f   == PathField(inst.cls, path)
        off == PathOffset(inst.cls, path)
        s   == IF f.ctype = "c_char" THEN UpToNul(v.b) ELSE <<>>
    IN  IF f.ctype = "c_char" THEN
            IF Len(s) > f.count THEN Raise("ValueError")
            ELSE CData(inst.cls,
                       WriteAt(inst.raw, off,
                               IF Len(s) < f.count THEN s \o <<0>> ELSE s))
        ELSE CData(inst.cls, WriteAt(inst.raw, off, SetPrim(f.ctype, v)))

RECURSIVE GetLeaf(_, _)
\* the value read back at a path
GetLeaf(inst, path) ==
    LET a == GetAttr(inst, path[1].name)
        e == IF path[1].idx > 0 THEN a.items[path[1].idx] ELSE a
    IN  IF Len(path) = 1 THEN e ELSE GetLeaf(e, Tail(path))

\* cls(): a new instance, its buffer zero-filled
New(cls) == CData(cls, Zeros(size(cls)))

(***************************************************************************)
(* The registry and the listener.                                          *)
(***************************************************************************)
None == [py |-> "None"]

\* packets.HEADER_FIELD_TO_PACKET_TYPE as the module defines it: a dict
\* from (packet_format, packet_version, packet_id) to the packet class
InitialRegistry ==
    (<<2021, 1, 0>> :> "PacketMotionData")
    @@ (<<2021, 1, 1>> :> "PacketSessionData")
    @@ (<<2021, 1, 2>> :> "PacketLapData")
    @@ (<<2021, 1, 3>> :> "PacketEventData")
    @@ (<<2021, 1, 4>> :> "PacketParticipantsData")
    @@ (<<2021, 1, 5>> :> "PacketCarSetupData")
    @@ (<<2021, 1, 6>> :> "PacketCarTelemetryData")
    @@ (<<2021, 1, 7>> :> "PacketCarStatusData")
    @@ (<<2021, 1, 8>> :> "PacketFinalClassificationData")
    @@ (<<2021, 1, 9>> :> "PacketLobbyInfoData")
    @@ (<<2021, 1, 10>> :> "PacketCarDamageData")
    @@ (<<2021, 1, 11>> :> "PacketSessionHistoryData")

\* (mutation) a del that removes nothing
DictDel_keeping(d, k) == d

\* the dict d without the key k
DictDel(d, k) == [x \in (DOMAIN d) \ {k} |-> d[x]]

\* (mutation) a constructor that binds again, to the next port, when the
\* bind fails
TelemetryListener_retrying(host, port, bindok) ==
    LET p == IF port = None \/ port = PyInt(0) THEN PyInt(20777) ELSE port
        h == IF host = None \/ host = PyStr(<<>>) THEN PyStr(<<>>) ELSE host
    IN  [py |-> "TelemetryListener",
         socket |-> [host |-> h, port |-> IF bindok THEN p ELSE PyInt(p.v + 1),
                     open |-> TRUE]]

\* TelemetryListener.__init__(host, port): a falsy port becomes 20777, a
\* falsy host '', and the new UDP socket is bound once; bindok is whether
\* the operating system accepts the bind (OSError otherwise).  host is a
\* string or None, port an int or None.
TelemetryListener(host, port, bindok) ==
    LET p == IF port = None \/ port = PyInt(0) THEN PyInt(20777) ELSE port
        h == IF host = None \/ host = PyStr(<<>>) THEN PyStr(<<>>) ELSE host
    IN  IF bindok
        THEN [py |-> "TelemetryListener", socket |-> [host |-> h, port |-> p, open |-> TRUE]]
        ELSE Raise("OSError")

\* socket.recv(2048): the next datagram, cut to 2048 bytes
RecvMax == 2048
recv(datagram) == SubSeq(datagram, 1, Min(Len(datagram), RecvMax))

\* (header.m_packet_format, header.m_packet_version, header.m_packet_id)
HeaderKey(header) ==
    << GetAttr(header, "m_packet_format").v,
       GetAttr(header, "m_packet_version").v,
       GetAttr(header, "m_packet_id").v >>

\* (mutation) get that closes its socket when it cannot decode
get_closing_on_error(self, registry, datagram) ==
    LET data   == recv(datagram)
        header == unpack("PacketHeader", data)
        key    == IF IsRaise(header) THEN <<>> ELSE HeaderKey(header)
        ret    == IF IsRaise(header) THEN header
                  ELSE IF key \notin DOMAIN registry THEN Raise("KeyError")
                  ELSE unpack(registry[key], data)
    IN  [ret |-> ret,
         self |-> IF IsRaise(ret) THEN [self EXCEPT !.socket.open = FALSE] ELSE self,
         registry |-> registry]

\* (mutation) get that hands the class the bytes after the header
get_without_header(self, registry, datagram) ==
    LET data   == recv(datagram)
        header == unpack("PacketHeader", data)
        key    == IF IsRaise(header) THEN <<>> ELSE HeaderKey(header)
        ret    == IF IsRaise(header) THEN header
                  ELSE IF key \notin DOMAIN registry THEN Raise("KeyError")
                  ELSE unpack(registry[key], SubSeq(data, 25, Len(data)))
    IN  [ret |-> ret, self |-> self, registry |-> registry]

\* TelemetryListener.get on the datagram the socket delivers: the returned
\* packet or the exception raised (ret), and the listener and the registry
\* as the call leaves them.  recv on a closed socket raises OSError.
TelemetryListener_get(self, registry, datagram) ==
    LET data   == recv(datagram)
        header == unpack("PacketHeader", data)
        key    == IF IsRaise(header) THEN <<>> ELSE HeaderKey(header)
        ret    == IF ~self.socket.open THEN Raise("OSError")
                  ELSE IF IsRaise(header) THEN header
                  ELSE IF key \notin DOMAIN registry THEN Raise("KeyError")
                  ELSE unpack(registry[key], data)
    IN  [ret |-> ret, self |-> self, registry |-> registry]

\* PacketMixin.to_json / Packet.__repr__: json.dumps of to_dict with
\* sort_keys = True and indent = 2 (kept as the document and its options)
to_json(inst) ==
    IF IsRaise(to_dict(inst)) THEN to_dict(inst)
    ELSE [py |-> "json", doc |-> to_dict(inst), sort_keys |-> TRUE, indent |-> 2]

(***************************************************************************)
(* Datagrams the game (or anything else) may send to the port.             *)
(***************************************************************************)
\* the 24 header bytes on the wire
WireHeader(fmt, major, minor, ver, id, uid, time, frame, pci, spci) ==
    <<fmt % 256, fmt \div 256, major, minor, ver, id>> \o uid \o time \o frame
    \o <<pci, spci>>

\* header of packet id `id` with format fmt and version ver: game 1.3,
\* session_uid 123456789, session_time 12.5, frame 500, player car 0, no
\* second player
Hdr(fmt, ver, id) ==
    WireHeader(fmt, 1, 3, ver, id, <<21, 205, 91, 7, 0, 0, 0, 0>>,
               <<0, 0, 72, 65>>, <<244, 1, 0, 0>>, 0, 255)

\* body byte k (counted from 1) of the fill patterns
Pat(p, k) ==
    CASE p = "zero" -> 0
      [] p = "ramp" -> (37 * k + 11) % 256
      [] p = "text" -> 65 + (k % 26)
      [] p = "high" -> 255
      [] p = "gaps" -> IF k % 7 = 0 THEN 0 ELSE 65 + (k % 26)

\* len bytes: the bytes of head, then the pattern p
Fill(head, len, p) == [k \in 1..len |-> IF k <= Len(head) THEN head[k] ELSE Pat(p, k)]

\* "FTLP" and an event code no table knows
FTLP == <<70, 84, 76, 80>>
XXXX == <<88, 88, 88, 88>>

RegisteredIds == 0..11

\* the datagrams, given the table L of the classes' sizes
DatagramsOf(L) ==
    \* one well-formed datagram of every registered type
    { Fill(Hdr(2021, 1, id), L[InitialRegistry[<<2021, 1, id>>]].size, "zero") :
          id \in RegisteredIds \ {3} }
    \* events: a fastest lap with bytes in the whole union, an unknown code
    \cup { Fill(Hdr(2021, 1, 3) \o FTLP, L["PacketEventData"].size, "ramp"),
           Fill(Hdr(2021, 1, 3) \o XXXX, L["PacketEventData"].size, "zero") }
    \* participants whose names are not UTF-8
    \cup { Fill(Hdr(2021, 1, 4), L["PacketParticipantsData"].size, "ramp") }
    \* one byte short of the type's size, for every type, and the bare header
    \cup { Fill(Hdr(2021, 1, id), L[InitialRegistry[<<2021, 1, id>>]].size - 1, "zero") :
              id \in RegisteredIds }
    \cup { Fill(Hdr(2021, 1, 1), L["PacketHeader"].size, "zero") }
    \* shorter than a header
    \cup { Fill(Hdr(2021, 1, 0), 23, "zero"), <<>> }
    \* header triples that are not registered
    \cup { Fill(Hdr(2020, 1, 0), L["PacketMotionData"].size, "zero"),
           Fill(Hdr(2021, 2, 1), L["PacketSessionData"].size, "zero"),
           Fill(Hdr(2021, 1, 12), L["PacketMotionData"].size, "zero") }
    \* the well-formed datagrams of two types with bytes after them: one
    \* more than the type takes, and more than recv takes
    \cup { Fill(Fill(Hdr(2021, 1, 2), L["PacketLapData"].size, "zero"),
                L["PacketLapData"].size + 1, "high"),
           Fill(Fill(Hdr(2021, 1, 6), L["PacketCarTelemetryData"].size, "zero"),
                RecvMax + 1, "high") }

Datagrams == DatagramsOf(Layout)


(***************************************************************************)
(* JSON text: the options json.dumps is called with and the order in which *)
(* it lists the keys of a mapping.                                         *)
(***************************************************************************)
\* the code points of a field name (the keys of the mappings are the names
\* of _fields_)
NameChars(name) ==
    CASE name = "m_actual_tyre_compound" -> <<109, 95, 97, 99, 116, 117, 97, 108, 95, 116, 121, 114, 101, 95, 99, 111, 109, 112, 111, 117, 110, 100>>
      [] name = "m_ai_controlled" -> <<109, 95, 97, 105, 95, 99, 111, 110, 116, 114, 111, 108, 108, 101, 100>>
      [] name = "m_ai_difficulty" -> <<109, 95, 97, 105, 95, 100, 105, 102, 102, 105, 99, 117, 108, 116, 121>>
      [] name = "m_air_temperature" -> <<109, 95, 97, 105, 114, 95, 116, 101, 109, 112, 101, 114, 97, 116, 117, 114, 101>>
      [] name = "m_air_temperature_change" -> <<109, 95, 97, 105, 114, 95, 116, 101, 109, 112, 101, 114, 97, 116, 117, 114, 101, 95, 99, 104, 97, 110, 103, 101>>
      [] name = "m_angular_acceleration_x" -> <<109, 95, 97, 110, 103, 117, 108, 97, 114, 95, 97, 99, 99, 101, 108, 101, 114, 97, 116, 105, 111, 110, 95, 120>>
      [] name = "m_angular_acceleration_y" -> <<109, 95, 97, 110, 103, 117, 108, 97, 114, 95, 97, 99, 99, 101, 108, 101, 114, 97, 116, 105, 111, 110, 95, 121>>
      [] name = "m_angular_acceleration_z" -> <<109, 95, 97, 110, 103, 117, 108, 97, 114, 95, 97, 99, 99, 101, 108, 101, 114, 97, 116, 105, 111, 110, 95, 122>>
      [] name = "m_angular_velocity_x" -> <<109, 95, 97, 110, 103, 117, 108, 97, 114, 95, 118, 101, 108, 111, 99, 105, 116, 121, 95, 120>>
      [] name = "m_angular_velocity_y" -> <<109, 95, 97, 110, 103, 117, 108, 97, 114, 95, 118, 101, 108, 111, 99, 105, 116, 121, 95, 121>>
      [] name = "m_angular_velocity_z" -> <<109, 95, 97, 110, 103, 117, 108, 97, 114, 95, 118, 101, 108, 111, 99, 105, 116, 121, 95, 122>>
      [] name = "m_anti_lock_brakes" -> <<109, 95, 97, 110, 116, 105, 95, 108, 111, 99, 107, 95, 98, 114, 97, 107, 101, 115>>
      [] name = "m_ballast" -> <<109, 95, 98, 97, 108, 108, 97, 115, 116>>
      [] name = "m_best_lap_time_in_ms" -> <<109, 95, 98, 101, 115, 116, 95, 108, 97, 112, 95, 116, 105, 109, 101, 95, 105, 110, 95, 109, 115>>
      [] name = "m_best_lap_time_lap_num" -> <<109, 95, 98, 101, 115, 116, 95, 108, 97, 112, 95, 116, 105, 109, 101, 95, 108, 97, 112, 95, 110, 117, 109>>
      [] name = "m_best_sector1_lap_num" -> <<109, 95, 98, 101, 115, 116, 95, 115, 101, 99, 116, 111, 114, 49, 95, 108, 97, 112, 95, 110, 117, 109>>
      [] name = "m_best_sector2_lap_num" -> <<109, 95, 98, 101, 115, 116, 95, 115, 101, 99, 116, 111, 114, 50, 95, 108, 97, 112, 95, 110, 117, 109>>
      [] name = "m_best_sector3_lap_num" -> <<109, 95, 98, 101, 115, 116, 95, 115, 101, 99, 116, 111, 114, 51, 95, 108, 97, 112, 95, 110, 117, 109>>
      [] name = "m_brake" -> <<109, 95, 98, 114, 97, 107, 101>>
      [] name = "m_brake_bias" -> <<109, 95, 98, 114, 97, 107, 101, 95, 98, 105, 97, 115>>
      [] name = "m_brake_pressure" -> <<109, 95, 98, 114, 97, 107, 101, 95, 112, 114, 101, 115, 115, 117, 114, 101>>
      [] name = "m_brakes_damage" -> <<109, 95, 98, 114, 97, 107, 101, 115, 95, 100, 97, 109, 97, 103, 101>>
      [] name = "m_brakes_temperature" -> <<109, 95, 98, 114, 97, 107, 101, 115, 95, 116, 101, 109, 112, 101, 114, 97, 116, 117, 114, 101>>
      [] name = "m_braking_assist" -> <<109, 95, 98, 114, 97, 107, 105, 110, 103, 95, 97, 115, 115, 105, 115, 116>>
      [] name = "m_button_status" -> <<109, 95, 98, 117, 116, 116, 111, 110, 95, 115, 116, 97, 116, 117, 115>>
      [] name = "m_buttons" -> <<109, 95, 98, 117, 116, 116, 111, 110, 115>>
      [] name = "m_car_damage_data" -> <<109, 95, 99, 97, 114, 95, 100, 97, 109, 97, 103, 101, 95, 100, 97, 116, 97>>
      [] name = "m_car_idx" -> <<109, 95, 99, 97, 114, 95, 105, 100, 120>>
      [] name = "m_car_motion_data" -> <<109, 95, 99, 97, 114, 95, 109, 111, 116, 105, 111, 110, 95, 100, 97, 116, 97>>
      [] name = "m_car_number" -> <<109, 95, 99, 97, 114, 95, 110, 117, 109, 98, 101, 114>>
      [] name = "m_car_position" -> <<109, 95, 99, 97, 114, 95, 112, 111, 115, 105, 116, 105, 111, 110>>
      [] name = "m_car_setups" -> <<109, 95, 99, 97, 114, 95, 115, 101, 116, 117, 112, 115>>
      [] name = "m_car_status_data" -> <<109, 95, 99, 97, 114, 95, 115, 116, 97, 116, 117, 115, 95, 100, 97, 116, 97>>
      [] name = "m_car_telemetry_data" -> <<109, 95, 99, 97, 114, 95, 116, 101, 108, 101, 109, 101, 116, 114, 121, 95, 100, 97, 116, 97>>
      [] name = "m_classification_data" -> <<109, 95, 99, 108, 97, 115, 115, 105, 102, 105, 99, 97, 116, 105, 111, 110, 95, 100, 97, 116, 97>>
      [] name = "m_clutch" -> <<109, 95, 99, 108, 117, 116, 99, 104>>
      [] name = "m_current_lap_invalid" -> <<109, 95, 99, 117, 114, 114, 101, 110, 116, 95, 108, 97, 112, 95, 105, 110, 118, 97, 108, 105, 100>>
      [] name = "m_current_lap_num" -> <<109, 95, 99, 117, 114, 114, 101, 110, 116, 95, 108, 97, 112, 95, 110, 117, 109>>
      [] name = "m_current_lap_time_in_ms" -> <<109, 95, 99, 117, 114, 114, 101, 110, 116, 95, 108, 97, 112, 95, 116, 105, 109, 101, 95, 105, 110, 95, 109, 115>>
      [] name = "m_diffuser_damage" -> <<109, 95, 100, 105, 102, 102, 117, 115, 101, 114, 95, 100, 97, 109, 97, 103, 101>>
      [] name = "m_drive_through_penalty_served" -> <<109, 95, 100, 114, 105, 118, 101, 95, 116, 104, 114, 111, 117, 103, 104, 95, 112, 101, 110, 97, 108, 116, 121, 95, 115, 101, 114, 118, 101, 100>>
      [] name = "m_driver_fastest_in_session" -> <<109, 95, 100, 114, 105, 118, 101, 114, 95, 102, 97, 115, 116, 101, 115, 116, 95, 105, 110, 95, 115, 101, 115, 115, 105, 111, 110>>
      [] name = "m_driver_id" -> <<109, 95, 100, 114, 105, 118, 101, 114, 95, 105, 100>>
      [] name = "m_driver_status" -> <<109, 95, 100, 114, 105, 118, 101, 114, 95, 115, 116, 97, 116, 117, 115>>
      [] name = "m_drs" -> <<109, 95, 100, 114, 115>>
      [] name = "m_drs_activation_distance" -> <<109, 95, 100, 114, 115, 95, 97, 99, 116, 105, 118, 97, 116, 105, 111, 110, 95, 100, 105, 115, 116, 97, 110, 99, 101>>
      [] name = "m_drs_allowed" -> <<109, 95, 100, 114, 115, 95, 97, 108, 108, 111, 119, 101, 100>>
      [] name = "m_drs_fault" -> <<109, 95, 100, 114, 115, 95, 102, 97, 117, 108, 116>>
      [] name = "m_drsassist" -> <<109, 95, 100, 114, 115, 97, 115, 115, 105, 115, 116>>
      [] name = "m_dynamic_racing_line" -> <<109, 95, 100, 121, 110, 97, 109, 105, 99, 95, 114, 97, 99, 105, 110, 103, 95, 108, 105, 110, 101>>
      [] name = "m_dynamic_racing_line_type" -> <<109, 95, 100, 121, 110, 97, 109, 105, 99, 95, 114, 97, 99, 105, 110, 103, 95, 108, 105, 110, 101, 95, 116, 121, 112, 101>>
      [] name = "m_end_lap" -> <<109, 95, 101, 110, 100, 95, 108, 97, 112>>
      [] name = "m_engine_cewear" -> <<109, 95, 101, 110, 103, 105, 110, 101, 95, 99, 101, 119, 101, 97, 114>>
      [] name = "m_engine_damage" -> <<109, 95, 101, 110, 103, 105, 110, 101, 95, 100, 97, 109, 97, 103, 101>>
      [] name = "m_engine_eswear" -> <<109, 95, 101, 110, 103, 105, 110, 101, 95, 101, 115, 119, 101, 97, 114>>
      [] name = "m_engine_icewear" -> <<109, 95, 101, 110, 103, 105, 110, 101, 95, 105, 99, 101, 119, 101, 97, 114>>
      [] name = "m_engine_mguhwear" -> <<109, 95, 101, 110, 103, 105, 110, 101, 95, 109, 103, 117, 104, 119, 101, 97, 114>>
      [] name = "m_engine_mgukwear" -> <<109, 95, 101, 110, 103, 105, 110, 101, 95, 109, 103, 117, 107, 119, 101, 97, 114>>
      [] name = "m_engine_rpm" -> <<109, 95, 101, 110, 103, 105, 110, 101, 95, 114, 112, 109>>
      [] name = "m_engine_tcwear" -> <<109, 95, 101, 110, 103, 105, 110, 101, 95, 116, 99, 119, 101, 97, 114>>
      [] name = "m_engine_temperature" -> <<109, 95, 101, 110, 103, 105, 110, 101, 95, 116, 101, 109, 112, 101, 114, 97, 116, 117, 114, 101>>
      [] name = "m_ers_deploy_mode" -> <<109, 95, 101, 114, 115, 95, 100, 101, 112, 108, 111, 121, 95, 109, 111, 100, 101>>
      [] name = "m_ers_deployed_this_lap" -> <<109, 95, 101, 114, 115, 95, 100, 101, 112, 108, 111, 121, 101, 100, 95, 116, 104, 105, 115, 95, 108, 97, 112>>
      [] name = "m_ers_harvested_this_lap_mguh" -> <<109, 95, 101, 114, 115, 95, 104, 97, 114, 118, 101, 115, 116, 101, 100, 95, 116, 104, 105, 115, 95, 108, 97, 112, 95, 109, 103, 117, 104>>
      [] name = "m_ers_harvested_this_lap_mguk" -> <<109, 95, 101, 114, 115, 95, 104, 97, 114, 118, 101, 115, 116, 101, 100, 95, 116, 104, 105, 115, 95, 108, 97, 112, 95, 109, 103, 117, 107>>
      [] name = "m_ers_store_energy" -> <<109, 95, 101, 114, 115, 95, 115, 116, 111, 114, 101, 95, 101, 110, 101, 114, 103, 121>>
      [] name = "m_ersassist" -> <<109, 95, 101, 114, 115, 97, 115, 115, 105, 115, 116>>
      [] name = "m_event_details" -> <<109, 95, 101, 118, 101, 110, 116, 95, 100, 101, 116, 97, 105, 108, 115>>
      [] name = "m_event_string_code" -> <<109, 95, 101, 118, 101, 110, 116, 95, 115, 116, 114, 105, 110, 103, 95, 99, 111, 100, 101>>
      [] name = "m_fastest_lap" -> <<109, 95, 102, 97, 115, 116, 101, 115, 116, 95, 108, 97, 112>>
      [] name = "m_flashback" -> <<109, 95, 102, 108, 97, 115, 104, 98, 97, 99, 107>>
      [] name = "m_flashback_frame_identifier" -> <<109, 95, 102, 108, 97, 115, 104, 98, 97, 99, 107, 95, 102, 114, 97, 109, 101, 95, 105, 100, 101, 110, 116, 105, 102, 105, 101, 114>>
      [] name = "m_flashback_session_time" -> <<109, 95, 102, 108, 97, 115, 104, 98, 97, 99, 107, 95, 115, 101, 115, 115, 105, 111, 110, 95, 116, 105, 109, 101>>
      [] name = "m_floor_damage" -> <<109, 95, 102, 108, 111, 111, 114, 95, 100, 97, 109, 97, 103, 101>>
      [] name = "m_forecast_accuracy" -> <<109, 95, 102, 111, 114, 101, 99, 97, 115, 116, 95, 97, 99, 99, 117, 114, 97, 99, 121>>
      [] name = "m_formula" -> <<109, 95, 102, 111, 114, 109, 117, 108, 97>>
      [] name = "m_frame_identifier" -> <<109, 95, 102, 114, 97, 109, 101, 95, 105, 100, 101, 110, 116, 105, 102, 105, 101, 114>>
      [] name = "m_front_anti_roll_bar" -> <<109, 95, 102, 114, 111, 110, 116, 95, 97, 110, 116, 105, 95, 114, 111, 108, 108, 95, 98, 97, 114>>
      [] name = "m_front_brake_bias" -> <<109, 95, 102, 114, 111, 110, 116, 95, 98, 114, 97, 107, 101, 95, 98, 105, 97, 115>>
      [] name = "m_front_camber" -> <<109, 95, 102, 114, 111, 110, 116, 95, 99, 97, 109, 98, 101, 114>>
      [] name = "m_front_left_tyre_pressure" -> <<109, 95, 102, 114, 111, 110, 116, 95, 108, 101, 102, 116, 95, 116, 121, 114, 101, 95, 112, 114, 101, 115, 115, 117, 114, 101>>
      [] name = "m_front_left_wing_damage" -> <<109, 95, 102, 114, 111, 110, 116, 95, 108, 101, 102, 116, 95, 119, 105, 110, 103, 95, 100, 97, 109, 97, 103, 101>>
      [] name = "m_front_right_tyre_pressure" -> <<109, 95, 102, 114, 111, 110, 116, 95, 114, 105, 103, 104, 116, 95, 116, 121, 114, 101, 95, 112, 114, 101, 115, 115, 117, 114, 101>>
      [] name = "m_front_right_wing_damage" -> <<109, 95, 102, 114, 111, 110, 116, 95, 114, 105, 103, 104, 116, 95, 119, 105, 110, 103, 95, 100, 97, 109, 97, 103, 101>>
      [] name = "m_front_suspension" -> <<109, 95, 102, 114, 111, 110, 116, 95, 115, 117, 115, 112, 101, 110, 115, 105, 111, 110>>
      [] name = "m_front_suspension_height" -> <<109, 95, 102, 114, 111, 110, 116, 95, 115, 117, 115, 112, 101, 110, 115, 105, 111, 110, 95, 104, 101, 105, 103, 104, 116>>
      [] name = "m_front_toe" -> <<109, 95, 102, 114, 111, 110, 116, 95, 116, 111, 101>>
      [] name = "m_front_wheels_angle" -> <<109, 95, 102, 114, 111, 110, 116, 95, 119, 104, 101, 101, 108, 115, 95, 97, 110, 103, 108, 101>>
      [] name = "m_front_wing" -> <<109, 95, 102, 114, 111, 110, 116, 95, 119, 105, 110, 103>>
      [] name = "m_fuel_capacity" -> <<109, 95, 102, 117, 101, 108, 95, 99, 97, 112, 97, 99, 105, 116, 121>>
      [] name = "m_fuel_in_tank" -> <<109, 95, 102, 117, 101, 108, 95, 105, 110, 95, 116, 97, 110, 107>>
      [] name = "m_fuel_load" -> <<109, 95, 102, 117, 101, 108, 95, 108, 111, 97, 100>>
      [] name = "m_fuel_mix" -> <<109, 95, 102, 117, 101, 108, 95, 109, 105, 120>>
      [] name = "m_fuel_remaining_laps" -> <<109, 95, 102, 117, 101, 108, 95, 114, 101, 109, 97, 105, 110, 105, 110, 103, 95, 108, 97, 112, 115>>
      [] name = "m_g_force_lateral" -> <<109, 95, 103, 95, 102, 111, 114, 99, 101, 95, 108, 97, 116, 101, 114, 97, 108>>
      [] name = "m_g_force_longitudinal" -> <<109, 95, 103, 95, 102, 111, 114, 99, 101, 95, 108, 111, 110, 103, 105, 116, 117, 100, 105, 110, 97, 108>>
      [] name = "m_g_force_vertical" -> <<109, 95, 103, 95, 102, 111, 114, 99, 101, 95, 118, 101, 114, 116, 105, 99, 97, 108>>
      [] name = "m_game_major_version" -> <<109, 95, 103, 97, 109, 101, 95, 109, 97, 106, 111, 114, 95, 118, 101, 114, 115, 105, 111, 110>>
      [] name = "m_game_minor_version" -> <<109, 95, 103, 97, 109, 101, 95, 109, 105, 110, 111, 114, 95, 118, 101, 114, 115, 105, 111, 110>>
      [] name = "m_game_paused" -> <<109, 95, 103, 97, 109, 101, 95, 112, 97, 117, 115, 101, 100>>
      [] name = "m_gear" -> <<109, 95, 103, 101, 97, 114>>
      [] name = "m_gear_box_damage" -> <<109, 95, 103, 101, 97, 114, 95, 98, 111, 120, 95, 100, 97, 109, 97, 103, 101>>
      [] name = "m_gearbox_assist" -> <<109, 95, 103, 101, 97, 114, 98, 111, 120, 95, 97, 115, 115, 105, 115, 116>>
      [] name = "m_grid_position" -> <<109, 95, 103, 114, 105, 100, 95, 112, 111, 115, 105, 116, 105, 111, 110>>
      [] name = "m_header" -> <<109, 95, 104, 101, 97, 100, 101, 114>>
      [] name = "m_idle_rpm" -> <<109, 95, 105, 100, 108, 101, 95, 114, 112, 109>>
      [] name = "m_infringement_type" -> <<109, 95, 105, 110, 102, 114, 105, 110, 103, 101, 109, 101, 110, 116, 95, 116, 121, 112, 101>>
      [] name = "m_is_spectating" -> <<109, 95, 105, 115, 95, 115, 112, 101, 99, 116, 97, 116, 105, 110, 103>>
      [] name = "m_lap_data" -> <<109, 95, 108, 97, 112, 95, 100, 97, 116, 97>>
      [] name = "m_lap_distance" -> <<109, 95, 108, 97, 112, 95, 100, 105, 115, 116, 97, 110, 99, 101>>
      [] name = "m_lap_history_data" -> <<109, 95, 108, 97, 112, 95, 104, 105, 115, 116, 111, 114, 121, 95, 100, 97, 116, 97>>
      [] name = "m_lap_num" -> <<109, 95, 108, 97, 112, 95, 110, 117, 109>>
      [] name = "m_lap_time" -> <<109, 95, 108, 97, 112, 95, 116, 105, 109, 101>>
      [] name = "m_lap_time_in_ms" -> <<109, 95, 108, 97, 112, 95, 116, 105, 109, 101, 95, 105, 110, 95, 109, 115>>
      [] name = "m_lap_valid_bit_flags" -> <<109, 95, 108, 97, 112, 95, 118, 97, 108, 105, 100, 95, 98, 105, 116, 95, 102, 108, 97, 103, 115>>
      [] name = "m_last_lap_time_in_ms" -> <<109, 95, 108, 97, 115, 116, 95, 108, 97, 112, 95, 116, 105, 109, 101, 95, 105, 110, 95, 109, 115>>
      [] name = "m_lobby_players" -> <<109, 95, 108, 111, 98, 98, 121, 95, 112, 108, 97, 121, 101, 114, 115>>
      [] name = "m_local_velocity_x" -> <<109, 95, 108, 111, 99, 97, 108, 95, 118, 101, 108, 111, 99, 105, 116, 121, 95, 120>>
      [] name = "m_local_velocity_y" -> <<109, 95, 108, 111, 99, 97, 108, 95, 118, 101, 108, 111, 99, 105, 116, 121, 95, 121>>
      [] name = "m_local_velocity_z" -> <<109, 95, 108, 111, 99, 97, 108, 95, 118, 101, 108, 111, 99, 105, 116, 121, 95, 122>>
      [] name = "m_marshal_zones" -> <<109, 95, 109, 97, 114, 115, 104, 97, 108, 95, 122, 111, 110, 101, 115>>
      [] name = "m_max_gears" -> <<109, 95, 109, 97, 120, 95, 103, 101, 97, 114, 115>>
      [] name = "m_max_rpm" -> <<109, 95, 109, 97, 120, 95, 114, 112, 109>>
      [] name = "m_mfd_panel_index" -> <<109, 95, 109, 102, 100, 95, 112, 97, 110, 101, 108, 95, 105, 110, 100, 101, 120>>
      [] name = "m_mfd_panel_index_secondary_player" -> <<109, 95, 109, 102, 100, 95, 112, 97, 110, 101, 108, 95, 105, 110, 100, 101, 120, 95, 115, 101, 99, 111, 110, 100, 97, 114, 121, 95, 112, 108, 97, 121, 101, 114>>
      [] name = "m_my_team" -> <<109, 95, 109, 121, 95, 116, 101, 97, 109>>
      [] name = "m_name" -> <<109, 95, 110, 97, 109, 101>>
      [] name = "m_nationality" -> <<109, 95, 110, 97, 116, 105, 111, 110, 97, 108, 105, 116, 121>>
      [] name = "m_network_game" -> <<109, 95, 110, 101, 116, 119, 111, 114, 107, 95, 103, 97, 109, 101>>
      [] name = "m_network_id" -> <<109, 95, 110, 101, 116, 119, 111, 114, 107, 95, 105, 100>>
      [] name = "m_network_paused" -> <<109, 95, 110, 101, 116, 119, 111, 114, 107, 95, 112, 97, 117, 115, 101, 100>>
      [] name = "m_num_active_cars" -> <<109, 95, 110, 117, 109, 95, 97, 99, 116, 105, 118, 101, 95, 99, 97, 114, 115>>
      [] name = "m_num_cars" -> <<109, 95, 110, 117, 109, 95, 99, 97, 114, 115>>
      [] name = "m_num_laps" -> <<109, 95, 110, 117, 109, 95, 108, 97, 112, 115>>
      [] name = "m_num_lights" -> <<109, 95, 110, 117, 109, 95, 108, 105, 103, 104, 116, 115>>
      [] name = "m_num_marshal_zones" -> <<109, 95, 110, 117, 109, 95, 109, 97, 114, 115, 104, 97, 108, 95, 122, 111, 110, 101, 115>>
      [] name = "m_num_penalties" -> <<109, 95, 110, 117, 109, 95, 112, 101, 110, 97, 108, 116, 105, 101, 115>>
      [] name = "m_num_pit_stops" -> <<109, 95, 110, 117, 109, 95, 112, 105, 116, 95, 115, 116, 111, 112, 115>>
      [] name = "m_num_players" -> <<109, 95, 110, 117, 109, 95, 112, 108, 97, 121, 101, 114, 115>>
      [] name = "m_num_tyre_stints" -> <<109, 95, 110, 117, 109, 95, 116, 121, 114, 101, 95, 115, 116, 105, 110, 116, 115>>
      [] name = "m_num_unserved_drive_through_pens" -> <<109, 95, 110, 117, 109, 95, 117, 110, 115, 101, 114, 118, 101, 100, 95, 100, 114, 105, 118, 101, 95, 116, 104, 114, 111, 117, 103, 104, 95, 112, 101, 110, 115>>
      [] name = "m_num_unserved_stop_go_pens" -> <<109, 95, 110, 117, 109, 95, 117, 110, 115, 101, 114, 118, 101, 100, 95, 115, 116, 111, 112, 95, 103, 111, 95, 112, 101, 110, 115>>
      [] name = "m_num_weather_forecast_samples" -> <<109, 95, 110, 117, 109, 95, 119, 101, 97, 116, 104, 101, 114, 95, 102, 111, 114, 101, 99, 97, 115, 116, 95, 115, 97, 109, 112, 108, 101, 115>>
      [] name = "m_off_throttle" -> <<109, 95, 111, 102, 102, 95, 116, 104, 114, 111, 116, 116, 108, 101>>
      [] name = "m_on_throttle" -> <<109, 95, 111, 110, 95, 116, 104, 114, 111, 116, 116, 108, 101>>
      [] name = "m_other_vehicle_idx" -> <<109, 95, 111, 116, 104, 101, 114, 95, 118, 101, 104, 105, 99, 108, 101, 95, 105, 100, 120>>
      [] name = "m_overall_fastest_in_session" -> <<109, 95, 111, 118, 101, 114, 97, 108, 108, 95, 102, 97, 115, 116, 101, 115, 116, 95, 105, 110, 95, 115, 101, 115, 115, 105, 111, 110>>
      [] name = "m_packet_format" -> <<109, 95, 112, 97, 99, 107, 101, 116, 95, 102, 111, 114, 109, 97, 116>>
      [] name = "m_packet_id" -> <<109, 95, 112, 97, 99, 107, 101, 116, 95, 105, 100>>
      [] name = "m_packet_version" -> <<109, 95, 112, 97, 99, 107, 101, 116, 95, 118, 101, 114, 115, 105, 111, 110>>
      [] name = "m_participants" -> <<109, 95, 112, 97, 114, 116, 105, 99, 105, 112, 97, 110, 116, 115>>
      [] name = "m_penalties" -> <<109, 95, 112, 101, 110, 97, 108, 116, 105, 101, 115>>
      [] name = "m_penalties_time" -> <<109, 95, 112, 101, 110, 97, 108, 116, 105, 101, 115, 95, 116, 105, 109, 101>>
      [] name = "m_penalty" -> <<109, 95, 112, 101, 110, 97, 108, 116, 121>>
      [] name = "m_penalty_type" -> <<109, 95, 112, 101, 110, 97, 108, 116, 121, 95, 116, 121, 112, 101>>
      [] name = "m_pit_assist" -> <<109, 95, 112, 105, 116, 95, 97, 115, 115, 105, 115, 116>>
      [] name = "m_pit_lane_time_in_lane_in_ms" -> <<109, 95, 112, 105, 116, 95, 108, 97, 110, 101, 95, 116, 105, 109, 101, 95, 105, 110, 95, 108, 97, 110, 101, 95, 105, 110, 95, 109, 115>>
      [] name = "m_pit_lane_timer_active" -> <<109, 95, 112, 105, 116, 95, 108, 97, 110, 101, 95, 116, 105, 109, 101, 114, 95, 97, 99, 116, 105, 118, 101>>
      [] name = "m_pit_limiter_status" -> <<109, 95, 112, 105, 116, 95, 108, 105, 109, 105, 116, 101, 114, 95, 115, 116, 97, 116, 117, 115>>
      [] name = "m_pit_release_assist" -> <<109, 95, 112, 105, 116, 95, 114, 101, 108, 101, 97, 115, 101, 95, 97, 115, 115, 105, 115, 116>>
      [] name = "m_pit_speed_limit" -> <<109, 95, 112, 105, 116, 95, 115, 112, 101, 101, 100, 95, 108, 105, 109, 105, 116>>
      [] name = "m_pit_status" -> <<109, 95, 112, 105, 116, 95, 115, 116, 97, 116, 117, 115>>
      [] name = "m_pit_stop_rejoin_position" -> <<109, 95, 112, 105, 116, 95, 115, 116, 111, 112, 95, 114, 101, 106, 111, 105, 110, 95, 112, 111, 115, 105, 116, 105, 111, 110>>
      [] name = "m_pit_stop_should_serve_pen" -> <<109, 95, 112, 105, 116, 95, 115, 116, 111, 112, 95, 115, 104, 111, 117, 108, 100, 95, 115, 101, 114, 118, 101, 95, 112, 101, 110>>
      [] name = "m_pit_stop_timer_in_ms" -> <<109, 95, 112, 105, 116, 95, 115, 116, 111, 112, 95, 116, 105, 109, 101, 114, 95, 105, 110, 95, 109, 115>>
      [] name = "m_pit_stop_window_ideal_lap" -> <<109, 95, 112, 105, 116, 95, 115, 116, 111, 112, 95, 119, 105, 110, 100, 111, 119, 95, 105, 100, 101, 97, 108, 95, 108, 97, 112>>
      [] name = "m_pit_stop_window_latest_lap" -> <<109, 95, 112, 105, 116, 95, 115, 116, 111, 112, 95, 119, 105, 110, 100, 111, 119, 95, 108, 97, 116, 101, 115, 116, 95, 108, 97, 112>>
      [] name = "m_pitch" -> <<109, 95, 112, 105, 116, 99, 104>>
      [] name = "m_places_gained" -> <<109, 95, 112, 108, 97, 99, 101, 115, 95, 103, 97, 105, 110, 101, 100>>
      [] name = "m_player_car_index" -> <<109, 95, 112, 108, 97, 121, 101, 114, 95, 99, 97, 114, 95, 105, 110, 100, 101, 120>>
      [] name = "m_points" -> <<109, 95, 112, 111, 105, 110, 116, 115>>
      [] name = "m_position" -> <<109, 95, 112, 111, 115, 105, 116, 105, 111, 110>>
      [] name = "m_race_number" -> <<109, 95, 114, 97, 99, 101, 95, 110, 117, 109, 98, 101, 114>>
      [] name = "m_race_winner" -> <<109, 95, 114, 97, 99, 101, 95, 119, 105, 110, 110, 101, 114>>
      [] name = "m_rain_percentage" -> <<109, 95, 114, 97, 105, 110, 95, 112, 101, 114, 99, 101, 110, 116, 97, 103, 101>>
      [] name = "m_ready_status" -> <<109, 95, 114, 101, 97, 100, 121, 95, 115, 116, 97, 116, 117, 115>>
      [] name = "m_rear_anti_roll_bar" -> <<109, 95, 114, 101, 97, 114, 95, 97, 110, 116, 105, 95, 114, 111, 108, 108, 95, 98, 97, 114>>
      [] name = "m_rear_camber" -> <<109, 95, 114, 101, 97, 114, 95, 99, 97, 109, 98, 101, 114>>
      [] name = "m_rear_left_tyre_pressure" -> <<109, 95, 114, 101, 97, 114, 95, 108, 101, 102, 116, 95, 116, 121, 114, 101, 95, 112, 114, 101, 115, 115, 117, 114, 101>>
      [] name = "m_rear_right_tyre_pressure" -> <<109, 95, 114, 101, 97, 114, 95, 114, 105, 103, 104, 116, 95, 116, 121, 114, 101, 95, 112, 114, 101, 115, 115, 117, 114, 101>>
      [] name = "m_rear_suspension" -> <<109, 95, 114, 101, 97, 114, 95, 115, 117, 115, 112, 101, 110, 115, 105, 111, 110>>
      [] name = "m_rear_suspension_height" -> <<109, 95, 114, 101, 97, 114, 95, 115, 117, 115, 112, 101, 110, 115, 105, 111, 110, 95, 104, 101, 105, 103, 104, 116>>
      [] name = "m_rear_toe" -> <<109, 95, 114, 101, 97, 114, 95, 116, 111, 101>>
      [] name = "m_rear_wing" -> <<109, 95, 114, 101, 97, 114, 95, 119, 105, 110, 103>>
      [] name = "m_rear_wing_damage" -> <<109, 95, 114, 101, 97, 114, 95, 119, 105, 110, 103, 95, 100, 97, 109, 97, 103, 101>>
      [] name = "m_result_status" -> <<109, 95, 114, 101, 115, 117, 108, 116, 95, 115, 116, 97, 116, 117, 115>>
      [] name = "m_retirement" -> <<109, 95, 114, 101, 116, 105, 114, 101, 109, 101, 110, 116>>
      [] name = "m_rev_lights_bit_value" -> <<109, 95, 114, 101, 118, 95, 108, 105, 103, 104, 116, 115, 95, 98, 105, 116, 95, 118, 97, 108, 117, 101>>
      [] name = "m_rev_lights_percent" -> <<109, 95, 114, 101, 118, 95, 108, 105, 103, 104, 116, 115, 95, 112, 101, 114, 99, 101, 110, 116>>
      [] name = "m_roll" -> <<109, 95, 114, 111, 108, 108>>
      [] name = "m_safety_car_delta" -> <<109, 95, 115, 97, 102, 101, 116, 121, 95, 99, 97, 114, 95, 100, 101, 108, 116, 97>>
      [] name = "m_safety_car_status" -> <<109, 95, 115, 97, 102, 101, 116, 121, 95, 99, 97, 114, 95, 115, 116, 97, 116, 117, 115>>
      [] name = "m_season_link_identifier" -> <<109, 95, 115, 101, 97, 115, 111, 110, 95, 108, 105, 110, 107, 95, 105, 100, 101, 110, 116, 105, 102, 105, 101, 114>>
      [] name = "m_secondary_player_car_index" -> <<109, 95, 115, 101, 99, 111, 110, 100, 97, 114, 121, 95, 112, 108, 97, 121, 101, 114, 95, 99, 97, 114, 95, 105, 110, 100, 101, 120>>
      [] name = "m_sector" -> <<109, 95, 115, 101, 99, 116, 111, 114>>
      [] name = "m_sector1_time_in_ms" -> <<109, 95, 115, 101, 99, 116, 111, 114, 49, 95, 116, 105, 109, 101, 95, 105, 110, 95, 109, 115>>
      [] name = "m_sector2_time_in_ms" -> <<109, 95, 115, 101, 99, 116, 111, 114, 50, 95, 116, 105, 109, 101, 95, 105, 110, 95, 109, 115>>
      [] name = "m_sector3_time_in_ms" -> <<109, 95, 115, 101, 99, 116, 111, 114, 51, 95, 116, 105, 109, 101, 95, 105, 110, 95, 109, 115>>
      [] name = "m_session_duration" -> <<109, 95, 115, 101, 115, 115, 105, 111, 110, 95, 100, 117, 114, 97, 116, 105, 111, 110>>
      [] name = "m_session_link_identifier" -> <<109, 95, 115, 101, 115, 115, 105, 111, 110, 95, 108, 105, 110, 107, 95, 105, 100, 101, 110, 116, 105, 102, 105, 101, 114>>
      [] name = "m_session_time" -> <<109, 95, 115, 101, 115, 115, 105, 111, 110, 95, 116, 105, 109, 101>>
      [] name = "m_session_time_left" -> <<109, 95, 115, 101, 115, 115, 105, 111, 110, 95, 116, 105, 109, 101, 95, 108, 101, 102, 116>>
      [] name = "m_session_type" -> <<109, 95, 115, 101, 115, 115, 105, 111, 110, 95, 116, 121, 112, 101>>
      [] name = "m_session_uid" -> <<109, 95, 115, 101, 115, 115, 105, 111, 110, 95, 117, 105, 100>>
      [] name = "m_sidepod_damage" -> <<109, 95, 115, 105, 100, 101, 112, 111, 100, 95, 100, 97, 109, 97, 103, 101>>
      [] name = "m_sli_pro_native_support" -> <<109, 95, 115, 108, 105, 95, 112, 114, 111, 95, 110, 97, 116, 105, 118, 101, 95, 115, 117, 112, 112, 111, 114, 116>>
      [] name = "m_spectator_car_index" -> <<109, 95, 115, 112, 101, 99, 116, 97, 116, 111, 114, 95, 99, 97, 114, 95, 105, 110, 100, 101, 120>>
      [] name = "m_speed" -> <<109, 95, 115, 112, 101, 101, 100>>
      [] name = "m_speed_trap" -> <<109, 95, 115, 112, 101, 101, 100, 95, 116, 114, 97, 112>>
      [] name = "m_start_lights" -> <<109, 95, 115, 116, 97, 114, 116, 95, 108, 105, 103, 104, 116, 115>>
      [] name = "m_steer" -> <<109, 95, 115, 116, 101, 101, 114>>
      [] name = "m_steering_assist" -> <<109, 95, 115, 116, 101, 101, 114, 105, 110, 103, 95, 97, 115, 115, 105, 115, 116>>
      [] name = "m_stop_go_penalty_served" -> <<109, 95, 115, 116, 111, 112, 95, 103, 111, 95, 112, 101, 110, 97, 108, 116, 121, 95, 115, 101, 114, 118, 101, 100>>
      [] name = "m_suggested_gear" -> <<109, 95, 115, 117, 103, 103, 101, 115, 116, 101, 100, 95, 103, 101, 97, 114>>
      [] name = "m_surface_type" -> <<109, 95, 115, 117, 114, 102, 97, 99, 101, 95, 116, 121, 112, 101>>
      [] name = "m_suspension_acceleration" -> <<109, 95, 115, 117, 115, 112, 101, 110, 115, 105, 111, 110, 95, 97, 99, 99, 101, 108, 101, 114, 97, 116, 105, 111, 110>>
      [] name = "m_suspension_position" -> <<109, 95, 115, 117, 115, 112, 101, 110, 115, 105, 111, 110, 95, 112, 111, 115, 105, 116, 105, 111, 110>>
      [] name = "m_suspension_velocity" -> <<109, 95, 115, 117, 115, 112, 101, 110, 115, 105, 111, 110, 95, 118, 101, 108, 111, 99, 105, 116, 121>>
      [] name = "m_team_id" -> <<109, 95, 116, 101, 97, 109, 95, 105, 100>>
      [] name = "m_team_mate_in_pits" -> <<109, 95, 116, 101, 97, 109, 95, 109, 97, 116, 101, 95, 105, 110, 95, 112, 105, 116, 115>>
      [] name = "m_throttle" -> <<109, 95, 116, 104, 114, 111, 116, 116, 108, 101>>
      [] name = "m_time" -> <<109, 95, 116, 105, 109, 101>>
      [] name = "m_time_offset" -> <<109, 95, 116, 105, 109, 101, 95, 111, 102, 102, 115, 101, 116>>
      [] name = "m_total_distance" -> <<109, 95, 116, 111, 116, 97, 108, 95, 100, 105, 115, 116, 97, 110, 99, 101>>
      [] name = "m_total_laps" -> <<109, 95, 116, 111, 116, 97, 108, 95, 108, 97, 112, 115>>
      [] name = "m_total_race_time" -> <<109, 95, 116, 111, 116, 97, 108, 95, 114, 97, 99, 101, 95, 116, 105, 109, 101>>
      [] name = "m_track_id" -> <<109, 95, 116, 114, 97, 99, 107, 95, 105, 100>>
      [] name = "m_track_length" -> <<109, 95, 116, 114, 97, 99, 107, 95, 108, 101, 110, 103, 116, 104>>
      [] name = "m_track_temperature" -> <<109, 95, 116, 114, 97, 99, 107, 95, 116, 101, 109, 112, 101, 114, 97, 116, 117, 114, 101>>
      [] name = "m_track_temperature_change" -> <<109, 95, 116, 114, 97, 99, 107, 95, 116, 101, 109, 112, 101, 114, 97, 116, 117, 114, 101, 95, 99, 104, 97, 110, 103, 101>>
      [] name = "m_traction_control" -> <<109, 95, 116, 114, 97, 99, 116, 105, 111, 110, 95, 99, 111, 110, 116, 114, 111, 108>>
      [] name = "m_tyre_actual_compound" -> <<109, 95, 116, 121, 114, 101, 95, 97, 99, 116, 117, 97, 108, 95, 99, 111, 109, 112, 111, 117, 110, 100>>
      [] name = "m_tyre_stints_actual" -> <<109, 95, 116, 121, 114, 101, 95, 115, 116, 105, 110, 116, 115, 95, 97, 99, 116, 117, 97, 108>>
      [] name = "m_tyre_stints_history_data" -> <<109, 95, 116, 121, 114, 101, 95, 115, 116, 105, 110, 116, 115, 95, 104, 105, 115, 116, 111, 114, 121, 95, 100, 97, 116, 97>>
      [] name = "m_tyre_stints_visual" -> <<109, 95, 116, 121, 114, 101, 95, 115, 116, 105, 110, 116, 115, 95, 118, 105, 115, 117, 97, 108>>
      [] name = "m_tyre_visual_compound" -> <<109, 95, 116, 121, 114, 101, 95, 118, 105, 115, 117, 97, 108, 95, 99, 111, 109, 112, 111, 117, 110, 100>>
      [] name = "m_tyres_age_laps" -> <<109, 95, 116, 121, 114, 101, 115, 95, 97, 103, 101, 95, 108, 97, 112, 115>>
      [] name = "m_tyres_damage" -> <<109, 95, 116, 121, 114, 101, 115, 95, 100, 97, 109, 97, 103, 101>>
      [] name = "m_tyres_inner_temperature" -> <<109, 95, 116, 121, 114, 101, 115, 95, 105, 110, 110, 101, 114, 95, 116, 101, 109, 112, 101, 114, 97, 116, 117, 114, 101>>
      [] name = "m_tyres_pressure" -> <<109, 95, 116, 121, 114, 101, 115, 95, 112, 114, 101, 115, 115, 117, 114, 101>>
      [] name = "m_tyres_surface_temperature" -> <<109, 95, 116, 121, 114, 101, 115, 95, 115, 117, 114, 102, 97, 99, 101, 95, 116, 101, 109, 112, 101, 114, 97, 116, 117, 114, 101>>
      [] name = "m_tyres_wear" -> <<109, 95, 116, 121, 114, 101, 115, 95, 119, 101, 97, 114>>
      [] name = "m_vehicle_fia_flags" -> <<109, 95, 118, 101, 104, 105, 99, 108, 101, 95, 102, 105, 97, 95, 102, 108, 97, 103, 115>>
      [] name = "m_vehicle_idx" -> <<109, 95, 118, 101, 104, 105, 99, 108, 101, 95, 105, 100, 120>>
      [] name = "m_visual_tyre_compound" -> <<109, 95, 118, 105, 115, 117, 97, 108, 95, 116, 121, 114, 101, 95, 99, 111, 109, 112, 111, 117, 110, 100>>
      [] name = "m_warnings" -> <<109, 95, 119, 97, 114, 110, 105, 110, 103, 115>>
      [] name = "m_weather" -> <<109, 95, 119, 101, 97, 116, 104, 101, 114>>
      [] name = "m_weather_forecast_samples" -> <<109, 95, 119, 101, 97, 116, 104, 101, 114, 95, 102, 111, 114, 101, 99, 97, 115, 116, 95, 115, 97, 109, 112, 108, 101, 115>>
      [] name = "m_weekend_link_identifier" -> <<109, 95, 119, 101, 101, 107, 101, 110, 100, 95, 108, 105, 110, 107, 95, 105, 100, 101, 110, 116, 105, 102, 105, 101, 114>>
      [] name = "m_wheel_slip" -> <<109, 95, 119, 104, 101, 101, 108, 95, 115, 108, 105, 112>>
      [] name = "m_wheel_speed" -> <<109, 95, 119, 104, 101, 101, 108, 95, 115, 112, 101, 101, 100>>
      [] name = "m_world_forward_dir_x" -> <<109, 95, 119, 111, 114, 108, 100, 95, 102, 111, 114, 119, 97, 114, 100, 95, 100, 105, 114, 95, 120>>
      [] name = "m_world_forward_dir_y" -> <<109, 95, 119, 111, 114, 108, 100, 95, 102, 111, 114, 119, 97, 114, 100, 95, 100, 105, 114, 95, 121>>
      [] name = "m_world_forward_dir_z" -> <<109, 95, 119, 111, 114, 108, 100, 95, 102, 111, 114, 119, 97, 114, 100, 95, 100, 105, 114, 95, 122>>
      [] name = "m_world_position_x" -> <<109, 95, 119, 111, 114, 108, 100, 95, 112, 111, 115, 105, 116, 105, 111, 110, 95, 120>>
      [] name = "m_world_position_y" -> <<109, 95, 119, 111, 114, 108, 100, 95, 112, 111, 115, 105, 116, 105, 111, 110, 95, 121>>
      [] name = "m_world_position_z" -> <<109, 95, 119, 111, 114, 108, 100, 95, 112, 111, 115, 105, 116, 105, 111, 110, 95, 122>>
      [] name = "m_world_right_dir_x" -> <<109, 95, 119, 111, 114, 108, 100, 95, 114, 105, 103, 104, 116, 95, 100, 105, 114, 95, 120>>
      [] name = "m_world_right_dir_y" -> <<109, 95, 119, 111, 114, 108, 100, 95, 114, 105, 103, 104, 116, 95, 100, 105, 114, 95, 121>>
      [] name = "m_world_right_dir_z" -> <<109, 95, 119, 111, 114, 108, 100, 95, 114, 105, 103, 104, 116, 95, 100, 105, 114, 95, 122>>
      [] name = "m_world_velocity_x" -> <<109, 95, 119, 111, 114, 108, 100, 95, 118, 101, 108, 111, 99, 105, 116, 121, 95, 120>>
      [] name = "m_world_velocity_y" -> <<109, 95, 119, 111, 114, 108, 100, 95, 118, 101, 108, 111, 99, 105, 116, 121, 95, 121>>
      [] name = "m_world_velocity_z" -> <<109, 95, 119, 111, 114, 108, 100, 95, 118, 101, 108, 111, 99, 105, 116, 121, 95, 122>>
      [] name = "m_yaw" -> <<109, 95, 121, 97, 119>>
      [] name = "m_your_telemetry" -> <<109, 95, 121, 111, 117, 114, 95, 116, 101, 108, 101, 109, 101, 116, 114, 121>>
      [] name = "m_zone_flag" -> <<109, 95, 122, 111, 110, 101, 95, 102, 108, 97, 103>>
      [] name = "m_zone_start" -> <<109, 95, 122, 111, 110, 101, 95, 115, 116, 97, 114, 116>>

\* a < b for two Python strings: by code point, a proper prefix first
StrLess(a, b) ==
    LET x == NameChars(a)
        y == NameChars(b)
        n == Min(Len(x), Len(y))
        d == {i \in 1..n : x[i] # y[i]}
    IN  IF d = {} THEN Len(x) < Len(y)
        ELSE LET i == CHOOSE k \in d : \A j \in d : k <= j
             IN  x[i] < y[i]

\* sorted(keys)
SortNames(keys) ==
    [r \in 1..Cardinality(keys) |->
        CHOOSE k \in keys : Cardinality({j \in keys : StrLess(j, k)}) = r - 1]

\* the keys of inst.to_dict() in the order json.dumps lists them: sorted
\* with sort_keys, else in the order to_dict inserted them (that of _fields_)
json_keys(inst, sort_keys) ==
    IF sort_keys THEN SortNames(FieldNames(inst.cls))
    ELSE [i \in 1..Len(classes[inst.cls].fields) |-> classes[inst.cls].fields[i].name]

\* (mutation) a to_json that sorts the keys only when the caller does not
\* say otherwise
to_json_setdefault(value, kwargs) ==
    [py |-> "json", doc |-> value,
     sort_keys |-> IF "sort_keys" \in DOMAIN kwargs THEN kwargs.sort_keys ELSE TRUE,
     indent |-> IF "indent" \in DOMAIN kwargs THEN kwargs.indent ELSE 2]

\* packets.to_json(value, **kwargs): json.dumps of value with indent 2
\* unless the caller gives one, and sort_keys = True whatever the caller
\* gives (kept as the document and the options of the dump)
module_to_json(value, kwargs) ==
    [py |-> "json", doc |-> value,
     sort_keys |-> TRUE,
     indent |-> IF "indent" \in DOMAIN kwargs THEN kwargs.indent ELSE 2]
(***************************************************************************)
(* The process: one Python process that runs one of the console entry      *)
(* points (main, save_packets) or uses the library directly (a client that *)
(* builds a TelemetryListener and handles what get raises).                *)
(***************************************************************************)
VARIABLES
    pc,                          \* where the process is
    HEADER_FIELD_TO_PACKET_TYPE, \* the module-level registry dict
    listener,                    \* the TelemetryListener, None before it exists
    samples,                     \* save_packets: class name -> captured packet
    packets_to_capture,          \* save_packets: the keys still wanted
    packet,                      \* what the last get / unpack / constructor gave
    buffer,                      \* the bytes the last get / unpack was given
    out,                         \* the last thing printed or computed from packet
    nsets,                       \* number of field assignments made to packet
    arrived,                     \* the datagrams that reached the socket, in order
    queue,                       \* the socket's receive queue: arrived, not yet read
    results,                     \* what the calls of get made by a client gave, in order
    loader,                      \* the PacketLoader, None before it exists
    disk,                        \* the directories there are: path -> names in it
    listing,                     \* the directories listed so far: path -> the
                                 \* names in the order the file system gave them
    samples_keys                 \* save_packets: list(samples), the names in the
                                 \* order they were inserted (a dict keeps it)

vars == <<classes, pc, HEADER_FIELD_TO_PACKET_TYPE, listener, samples,
          packets_to_capture, packet, buffer, out, nsets, arrived, queue, results,
          loader, disk, listing, samples_keys>>

EmptyDict == [k \in {} |-> None]

\* <root_dir>/example_packets, root_dir being Path(__file__).parent of
\* main.py; it is the Path(__file__).parent of loader.py as well:
\* '/pkg/example_packets'
ModuleDir == PyStr(<<47, 112, 107, 103, 47, 101, 120, 97, 109, 112, 108, 101, 95, 112, 97, 99, 107, 101, 116, 115>>)

\* <root_dir>/example_packets/json
JsonDir == PyStr(ModuleDir.cp \o <<47, 106, 115, 111, 110>>)

\* the names 'loader.py' and 'json', the endings '.pickle' and '.json'
LoaderPy == <<108, 111, 97, 100, 101, 114, 46, 112, 121>>
JsonName == <<106, 115, 111, 110>>
DotPickle == <<46, 112, 105, 99, 107, 108, 101>>
DotJson == <<46, 106, 115, 111, 110>>

\* the directories when the process starts: the package installed without
\* example_packets, the tree with loader.py alone in example_packets, and
\* the tree with the directory json in it as well
InitialDisks ==
    { EmptyDict,
      (ModuleDir :> {LoaderPy}),
      (ModuleDir :> {LoaderPy, JsonName}) @@ (JsonDir :> {}) }

Init ==
    /\ classes = Layout
    /\ pc = "start"
    /\ HEADER_FIELD_TO_PACKET_TYPE = InitialRegistry
    /\ listener = None
    /\ samples = EmptyDict
    /\ packets_to_capture = EmptyDict
    /\ packet = None
    /\ buffer = <<>>
    /\ out = None
    /\ nsets = 0
    /\ arrived = <<>>
    /\ queue = <<>>
    /\ results = <<>>
    /\ loader = None
    /\ disk \in InitialDisks
    /\ listing = EmptyDict
    /\ samples_keys = <<>>

\* the args of the OSError that socket() or bind() raises: (errno,
\* strerror) when the error comes from the operating system ((98, 'Address
\* already in use'), (13, 'Permission denied')), the message alone when
\* the socket module raises it itself ('wildcard resolved to multiple
\* address', for the host '')
OSErrorArgs ==
    { <<PyInt(98), PyStr(<<65, 100, 100, 114, 101, 115, 115, 32, 97, 108, 114, 101, 97, 100, 121, 32, 105, 110, 32, 117, 115, 101>>)>>,
      <<PyInt(13), PyStr(<<80, 101, 114, 109, 105, 115, 115, 105, 111, 110, 32, 100, 101, 110, 105, 101, 100>>)>>,
      <<PyStr(<<119, 105, 108, 100, 99, 97, 114, 100, 32, 114, 101, 115, 111, 108, 118, 101, 100, 32, 116, 111, 32, 109, 117, 108, 116, 105, 112, 108, 101, 32, 97, 100, 100, 114, 101, 115, 115>>)>> }

\* main._get_listener: the listener, or, when the bind fails, exit(127)
\* after the two messages; the first message reads exception.args[1], which
\* raises IndexError when the OSError has less than two args
get_listener(bindok, args) ==
    LET l == TelemetryListener(None, None, bindok)
    IN  IF IsRaise(l)
        THEN IF Len(args) >= 2 THEN [py |-> "exit", code |-> 127] ELSE Raise("IndexError")
        ELSE l

\* main() up to its loop
RunMain(bindok, args) ==
    /\ pc = "start"
    /\ LET l == get_listener(bindok, args)
       IN  IF l.py = "exit"
           THEN pc' = "exit127" /\ UNCHANGED <<listener, packet>>
           ELSE IF IsRaise(l)
           THEN pc' = "traceback" /\ packet' = l /\ UNCHANGED listener
           ELSE pc' = "main_loop" /\ listener' = l /\ UNCHANGED packet
    /\ UNCHANGED <<loader, disk, listing, classes, arrived, queue, results,
                   HEADER_FIELD_TO_PACKET_TYPE, samples, samples_keys, packets_to_capture,
                   buffer, out, nsets>>

\* one turn of main's `while True`: get, then print(packet).  Only
\* KeyboardInterrupt is caught, so whatever get or repr raises ends the
\* process with a traceback.
MainLoop(datagram) ==
    /\ pc = "main_loop"
    /\ LET r == TelemetryListener_get(listener, HEADER_FIELD_TO_PACKET_TYPE, datagram)
           text == IF IsRaise(r.ret) THEN r.ret ELSE to_json(r.ret)
       IN  /\ listener' = r.self
           /\ HEADER_FIELD_TO_PACKET_TYPE' = r.registry
           /\ buffer' = datagram
           /\ IF IsRaise(r.ret)
              THEN pc' = "traceback" /\ packet' = r.ret /\ out' = out
              ELSE /\ packet' = r.ret
                   /\ IF IsRaise(text)
                      THEN pc' = "traceback" /\ out' = text
                      ELSE pc' = pc /\ out' = [py |-> "print", text |-> text]
    /\ UNCHANGED <<loader, disk, listing, classes, arrived, queue, results,
                   samples, samples_keys, packets_to_capture, nsets>>

\* Ctrl-C while main waits in get: the except clause prints and main returns
MainInterrupt ==
    /\ pc = "main_loop"
    /\ pc' = "main_returned"
    /\ UNCHANGED <<loader, disk, listing, classes, arrived, queue, results,
                   HEADER_FIELD_TO_PACKET_TYPE, listener, samples, samples_keys, packets_to_capture,
                   packet, buffer, out, nsets>>

\* the rows save_packets deletes
Removed == {<<2021, 1, 8>>, <<2021, 1, 9>>}

\* save_packets() up to its loop: samples = {}, the listener, a deep copy of
\* the registry in packets_to_capture, then `del HEADER_FIELD_TO_PACKET_TYPE[k]`
\* for FinalClassification and LobbyInfo
RunSavePackets(bindok, args) ==
    /\ pc = "start"
    /\ LET l == get_listener(bindok, args)
       IN  IF l.py = "exit"
           THEN /\ pc' = "exit127"
                /\ UNCHANGED <<listener, HEADER_FIELD_TO_PACKET_TYPE, packets_to_capture,
                               packet>>
           ELSE IF IsRaise(l)
           THEN /\ pc' = "traceback"
                /\ packet' = l
                /\ UNCHANGED <<listener, HEADER_FIELD_TO_PACKET_TYPE, packets_to_capture>>
           ELSE /\ listener' = l
                /\ UNCHANGED packet
                /\ packets_to_capture' = HEADER_FIELD_TO_PACKET_TYPE
                /\ IF Removed \subseteq DOMAIN HEADER_FIELD_TO_PACKET_TYPE
                   THEN /\ HEADER_FIELD_TO_PACKET_TYPE' =
                              DictDel(DictDel(HEADER_FIELD_TO_PACKET_TYPE, <<2021, 1, 8>>),
                                      <<2021, 1, 9>>)
                        /\ pc' = "save_loop"
                   ELSE /\ HEADER_FIELD_TO_PACKET_TYPE' =
                              DictDel(HEADER_FIELD_TO_PACKET_TYPE, <<2021, 1, 8>>)
                        /\ pc' = "traceback"
    /\ samples' = EmptyDict
    /\ samples_keys' = <<>>
    /\ UNCHANGED <<loader, disk, listing, classes, arrived, queue, results,
                   buffer, out, nsets>>

\* one turn of save_packets' while loop.  The loop's local `packet` is not
\* kept between turns, and an uncaught exception unwinds the function, so
\* its locals samples and packets_to_capture are gone with it.  A name
\* stored for the first time goes to the end of the dict.
SaveLoop(datagram) ==
    /\ pc = "save_loop"
    /\ Cardinality(DOMAIN samples) # Cardinality(DOMAIN HEADER_FIELD_TO_PACKET_TYPE)
    /\ LET r == TelemetryListener_get(listener, HEADER_FIELD_TO_PACKET_TYPE, datagram)
           key == IF IsRaise(r.ret) THEN <<>> ELSE HeaderKey(GetAttr(r.ret, "m_header"))
       IN  /\ listener' = r.self
           /\ IF IsRaise(r.ret)
              THEN /\ pc' = "traceback"
                   /\ packet' = r.ret
                   /\ HEADER_FIELD_TO_PACKET_TYPE' = r.registry
                   /\ samples' = EmptyDict
                   /\ samples_keys' = <<>>
                   /\ packets_to_capture' = EmptyDict
              ELSE /\ packet' = None
                   /\ HEADER_FIELD_TO_PACKET_TYPE' = r.registry
                   /\ IF key \in DOMAIN packets_to_capture
                      THEN IF key \in DOMAIN r.registry
                           THEN /\ samples' = (r.registry[key] :> r.ret) @@ samples
                                /\ samples_keys' =
                                      IF r.registry[key] \in DOMAIN samples
                                      THEN samples_keys
                                      ELSE Append(samples_keys, r.registry[key])
                                /\ packets_to_capture' = DictDel(packets_to_capture, key)
                                /\ pc' = pc
                           ELSE /\ pc' = "traceback"
                                /\ samples' = EmptyDict
                                /\ samples_keys' = <<>>
                                /\ packets_to_capture' = EmptyDict
                      ELSE pc' = pc /\ UNCHANGED <<samples, samples_keys, packets_to_capture>>
    /\ UNCHANGED <<loader, disk, listing, classes, arrived, queue, results,
                   buffer, out, nsets>>

\* cls.__name__ as the code points of its characters, for the classes of
\* the registry
ClassChars ==
    ("PacketMotionData" :> <<80, 97, 99, 107, 101, 116, 77, 111, 116, 105, 111, 110, 68, 97, 116, 97>>) @@
    ("PacketSessionData" :> <<80, 97, 99, 107, 101, 116, 83, 101, 115, 115, 105, 111, 110, 68, 97, 116, 97>>) @@
    ("PacketLapData" :> <<80, 97, 99, 107, 101, 116, 76, 97, 112, 68, 97, 116, 97>>) @@
    ("PacketEventData" :> <<80, 97, 99, 107, 101, 116, 69, 118, 101, 110, 116, 68, 97, 116, 97>>) @@
    ("PacketParticipantsData" :> <<80, 97, 99, 107, 101, 116, 80, 97, 114, 116, 105, 99, 105, 112, 97, 110, 116, 115, 68, 97, 116, 97>>) @@
    ("PacketCarSetupData" :> <<80, 97, 99, 107, 101, 116, 67, 97, 114, 83, 101, 116, 117, 112, 68, 97, 116, 97>>) @@
    ("PacketCarTelemetryData" :> <<80, 97, 99, 107, 101, 116, 67, 97, 114, 84, 101, 108, 101, 109, 101, 116, 114, 121, 68, 97, 116, 97>>) @@
    ("PacketCarStatusData" :> <<80, 97, 99, 107, 101, 116, 67, 97, 114, 83, 116, 97, 116, 117, 115, 68, 97, 116, 97>>) @@
    ("PacketFinalClassificationData" :> <<80, 97, 99, 107, 101, 116, 70, 105, 110, 97, 108, 67, 108, 97, 115, 115, 105, 102, 105, 99, 97, 116, 105, 111, 110, 68, 97, 116, 97>>) @@
    ("PacketLobbyInfoData" :> <<80, 97, 99, 107, 101, 116, 76, 111, 98, 98, 121, 73, 110, 102, 111, 68, 97, 116, 97>>) @@
    ("PacketCarDamageData" :> <<80, 97, 99, 107, 101, 116, 67, 97, 114, 68, 97, 109, 97, 103, 101, 68, 97, 116, 97>>) @@
    ("PacketSessionHistoryData" :> <<80, 97, 99, 107, 101, 116, 83, 101, 115, 115, 105, 111, 110, 72, 105, 115, 116, 111, 114, 121, 68, 97, 116, 97>>)

\* the for loop over samples.items(), on the directories `files`: the
\* directories after it and what it raised (None when it ended).  For every
\* sample, in the order of the dict, open(..., 'wb') creates
\* example_packets/<name>.pickle and the packet is pickled, open(..., 'w')
\* creates example_packets/json/<name>.json, then to_dict is called and its
\* mapping dumped.  open raises FileNotFoundError when the directory is not
\* there; what to_dict raises leaves the file just created empty.
WriteSamples(keys, smp, files) ==
    LET Pickle(i) == ClassChars[keys[i]] \o DotPickle
        Json(i)   == ClassChars[keys[i]] \o DotJson
        bad  == {i \in 1..Len(keys) : IsRaise(to_dict(smp[keys[i]]))}
        last == IF bad = {} THEN Len(keys) ELSE CHOOSE i \in bad : \A j \in bad : i <= j
    IN  IF keys = <<>> THEN [disk |-> files, raised |-> None]
        ELSE IF ModuleDir \notin DOMAIN files
        THEN [disk |-> files, raised |-> Raise("FileNotFoundError")]
        ELSE IF JsonDir \notin DOMAIN files
        THEN [disk   |-> [files EXCEPT ![ModuleDir] = @ \cup {Pickle(1)}],
              raised |-> Raise("FileNotFoundError")]
        ELSE [disk   |-> [files EXCEPT
                             ![ModuleDir] = @ \cup {Pickle(i) : i \in 1..last},
                             ![JsonDir]   = @ \cup {Json(i) : i \in 1..last}],
              raised |-> IF bad = {} THEN None ELSE to_dict(smp[keys[last]])]

\* after the loop: every sample is pickled and its to_dict dumped as JSON,
\* then 'Done!' is printed; an exception of open or of to_dict ends the
\* process, the files written before it stay
SaveWrite ==
    /\ pc = "save_loop"
    /\ Cardinality(DOMAIN samples) = Cardinality(DOMAIN HEADER_FIELD_TO_PACKET_TYPE)
    /\ \E w \in {WriteSamples(samples_keys, samples, disk)} :
          /\ disk' = w.disk
          /\ IF IsRaise(w.raised)
             THEN /\ pc' = "traceback"
                  /\ out' = w.raised
                  /\ samples' = EmptyDict
                  /\ samples_keys' = <<>>
                  /\ packets_to_capture' = EmptyDict
             ELSE /\ pc' = "save_done"
                  /\ out' = [py |-> "print", text |-> PyStr(<<68, 111, 110, 101, 33>>)]
                  /\ UNCHANGED <<samples, samples_keys, packets_to_capture>>
    /\ UNCHANGED <<loader, listing, classes, arrived, queue, results,
                   HEADER_FIELD_TO_PACKET_TYPE, listener, packet, buffer, nsets>>

\* a program that uses the library: TelemetryListener(host, port)
ClientStart(host, port, bindok) ==
    /\ pc = "start"
    /\ LET l == TelemetryListener(host, port, bindok)
       IN  IF IsRaise(l)
           THEN pc' = "bind_error" /\ packet' = l /\ UNCHANGED listener
           ELSE pc' = "client" /\ listener' = l /\ UNCHANGED packet
    /\ UNCHANGED <<loader, disk, listing, classes, arrived, queue, results,
                   HEADER_FIELD_TO_PACKET_TYPE, samples, samples_keys, packets_to_capture, buffer,
                   out, nsets>>

\* the client calls listener.get() inside try/except and goes on
ClientGet(datagram) ==
    /\ pc = "client"
    /\ LET r == TelemetryListener_get(listener, HEADER_FIELD_TO_PACKET_TYPE, datagram)
       IN  /\ packet' = r.ret
           /\ listener' = r.self
           /\ HEADER_FIELD_TO_PACKET_TYPE' = r.registry
    /\ buffer' = datagram
    /\ UNCHANGED <<loader, disk, listing, classes, arrived, queue, results,
                   pc, samples, samples_keys, packets_to_capture, out, nsets>>

\* the classes save_packets keeps in the registry, by packet id
RetainedClasses ==
    <<"PacketMotionData", "PacketSessionData", "PacketLapData", "PacketEventData",
      "PacketParticipantsData", "PacketCarSetupData", "PacketCarTelemetryData",
      "PacketCarStatusData", "PacketCarDamageData", "PacketSessionHistoryData">>

\* The order in which the types reach save_packets for the first time is
\* any order in the program; the model bounds it.  The game sends the types
\* in turn, by packet id, and the capture starts at any of them:
Rotations ==
    { [i \in 1..Len(RetainedClasses) |->
          RetainedClasses[((s + i - 2) % Len(RetainedClasses)) + 1]] :
        s \in 1..Len(RetainedClasses) }

\* the number of times two types that follow each other in such an order
\* have changed places (with enough of them every order is reached)
MaxSwaps == 1

\* the order o with the types at i and i + 1 exchanged
Swap(o, i) == [o EXCEPT ![i] = o[i + 1], ![i + 1] = o[i]]

\* the orders within n exchanges of an order of S
RECURSIVE Swapped(_, _)
Swapped(S, n) ==
    IF n = 0 THEN S
    ELSE Swapped(S \cup {Swap(o, i) : o \in S, i \in 1..(Len(RetainedClasses) - 1)}, n - 1)

\* the orders of first arrival within the bound; a datagram of a type
\* already stored, or one that does not give a sample, arrives at any time
FirstArrivals == Swapped(Rotations, MaxSwaps)

\* what list(samples) can be while the types arrive in such an order
ArrivalPrefixes ==
    { SubSeq(o, 1, k) : o \in FirstArrivals, k \in 0..Len(RetainedClasses) }

Hosts == {None, PyStr(<<>>), PyStr(<<49, 50, 55, 46, 48, 46, 48, 46, 49>>)}
Ports == {None, PyInt(0), PyInt(20777), PyInt(20778)}

Next ==
    \/ \E ok \in BOOLEAN, a \in OSErrorArgs : RunMain(ok, a)
    \/ \E d \in Datagrams : MainLoop(d)
    \/ MainInterrupt
    \/ \E ok \in BOOLEAN, a \in OSErrorArgs : RunSavePackets(ok, a)
    \/ \E d \in Datagrams : SaveLoop(d) /\ samples_keys' \in ArrivalPrefixes
    \/ SaveWrite
    \/ \E h \in Hosts, p \in Ports, ok \in BOOLEAN : ClientStart(h, p, ok)
    \/ \E d \in Datagrams : ClientGet(d)

Spec == Init /\ [][Next]_vars


(***************************************************************************)
(* The codec used directly: a program that imports packets.py, decodes     *)
(* buffers with T.unpack, builds values with T() and field assignments,    *)
(* and calls pack and to_dict on them.                                     *)
(***************************************************************************)
\* the classes such a program decodes and builds: the registered packet
\* types, the header and the event details
CodecClasses ==
    {InitialRegistry[k] : k \in DOMAIN InitialRegistry}
    \cup {"PacketHeader", "EventDataDetails"}

\* the members of the union EventDataDetails
EventShapes == {"FastestLap", "Retirement", "TeamMateInPits", "RaceWinner", "Penalty",
                "SpeedTrap", "StartLights", "DriveThroughPenaltyServed",
                "StopGoPenaltyServed", "Flashback", "Buttons"}

\* an event details region that holds the bytes of one shape, the rest zero
ShapeRegion(L, shape) ==
    [k \in 1..L["EventDataDetails"].size |-> IF k <= L[shape].size THEN Pat("text", k) ELSE 0]

\* the (class, buffer) pairs given to unpack, L the table of the classes' sizes
CodecInputsOf(L) ==
    \* buffers of exactly the size of the class
    { [cls |-> c, b |-> Fill(<<>>, L[c].size, p)] :
          c \in CodecClasses, p \in {"zero", "ramp", "text", "high"} }
    \* one byte short, one byte long, empty
    \cup { [cls |-> c, b |-> Fill(<<>>, L[c].size - 1, "ramp")] : c \in CodecClasses }
    \cup { [cls |-> c, b |-> Fill(<<>>, L[c].size + 1, "ramp")] : c \in CodecClasses }
    \cup { [cls |-> c, b |-> <<>>] : c \in CodecClasses }
    \* a fastest lap event with bytes in the whole of its details
    \cup { [cls |-> "PacketEventData",
            b |-> Fill(Hdr(2021, 1, 3) \o FTLP, L["PacketEventData"].size, p)] :
              p \in {"ramp", "high"} }
    \* participants whose names have letters after their first NUL
    \cup { [cls |-> "PacketParticipantsData",
            b |-> Fill(<<>>, L["PacketParticipantsData"].size, "gaps")] }
    \* datagrams of the registered types with one byte after the packet
    \cup { [cls |-> InitialRegistry[k],
            b |-> Fill(Hdr(k[1], k[2], k[3]), L[InitialRegistry[k]].size + 1, "high")] :
              k \in DOMAIN InitialRegistry }
    \* the details of one shape each
    \cup { [cls |-> "EventDataDetails", b |-> ShapeRegion(L, s)] : s \in EventShapes }

CodecInputs == CodecInputsOf(Layout)

\* the Python float 0.1
Tenth ==
    FloatFin(0, -4, [k \in 1..51 |-> IF k <= 48 THEN (IF k % 4 \in {0, 1} THEN 1 ELSE 0)
                                     ELSE <<1, 0, 1>>[k - 48]])

\* the Python floats 12.5, -1.0 and 23.5
TwelveAndHalf == FloatFin(0, 3, <<1, 0, 0, 1>>)
MinusOne == FloatFin(1, 0, <<>>)
TwentyThreeAndHalf == FloatFin(0, 4, <<0, 1, 1, 1, 1>>)

\* -float('nan')
MinusNaN == FloatNaN(1, <<1>> \o Zeros(51))

Asg(cls, path, v) == [cls |-> cls, path |-> path, v |-> v]

\* the field assignments the program makes: values within the range of the
\* field's type, a NaN for a float and for a double, a name with a NUL
\* inside, and one int below the range of its field
Assignments ==
    { Asg("PacketHeader", <<Step("m_packet_format", 0)>>, PyInt(2021)),
      Asg("PacketHeader", <<Step("m_session_uid", 0)>>, PyLong(<<65535, 65535, 65535, 65535>>)),
      Asg("PacketHeader", <<Step("m_session_time", 0)>>, Tenth),
      Asg("PacketHeader", <<Step("m_frame_identifier", 0)>>, PyLong(<<500, 1>>)),
      Asg("PacketMotionData",
          <<Step("m_car_motion_data", 1), Step("m_world_forward_dir_x", 0)>>, PyInt(-32768)),
      Asg("PacketMotionData",
          <<Step("m_car_motion_data", 22), Step("m_roll", 0)>>, MinusOne),
      Asg("PacketMotionData", <<Step("m_suspension_position", 4)>>, TwelveAndHalf),
      Asg("PacketCarTelemetryData",
          <<Step("m_car_telemetry_data", 3), Step("m_brakes_temperature", 2)>>, PyInt(65535)),
      Asg("PacketCarTelemetryData",
          <<Step("m_car_telemetry_data", 22), Step("m_tyres_pressure", 4)>>,
          TwentyThreeAndHalf),
      Asg("PacketCarTelemetryData", <<Step("m_suggested_gear", 0)>>, PyInt(-1)),
      Asg("PacketParticipantsData",
          <<Step("m_participants", 1), Step("m_name", 0)>>, PyBytes(<<86, 69, 82>>)),
      Asg("PacketParticipantsData", <<Step("m_num_active_cars", 0)>>, PyInt(22)),
      Asg("PacketEventData", <<Step("m_event_string_code", 1)>>, PyInt(70)),
      Asg("PacketEventData",
          <<Step("m_event_details", 0), Step("m_fastest_lap", 0), Step("m_lap_time", 0)>>,
          TwentyThreeAndHalf),
      Asg("PacketEventData",
          <<Step("m_event_details", 0), Step("m_flashback", 0),
            Step("m_flashback_frame_identifier", 0)>>, PyLong(<<1, 1>>)),
      Asg("PacketEventData",
          <<Step("m_event_details", 0), Step("m_buttons", 0),
            Step("m_button_status", 0)>>, PyInt(-65537)),
      Asg("PacketFinalClassificationData",
          <<Step("m_classification_data", 1), Step("m_total_race_time", 0)>>, MinusNaN),
      Asg("PacketParticipantsData",
          <<Step("m_participants", 2), Step("m_name", 0)>>,
          PyBytes(<<97, 98, 0, 99, 100>>)),
      Asg("EventDataDetails",
          <<Step("m_fastest_lap", 0), Step("m_lap_time", 0)>>, MinusNaN),
      Asg("EventDataDetails",
          <<Step("m_speed_trap", 0), Step("m_speed", 0)>>, Tenth),
      Asg("EventDataDetails",
          <<Step("m_penalty", 0), Step("m_places_gained", 0)>>, PyInt(255)) }

\* the number of assignments made to one value
MaxSets == 2

CodecInit ==
    /\ classes = Layout
    /\ pc = "codec"
    /\ HEADER_FIELD_TO_PACKET_TYPE = InitialRegistry
    /\ listener = None
    /\ samples = EmptyDict
    /\ packets_to_capture = EmptyDict
    /\ packet = None
    /\ buffer = <<>>
    /\ out = None
    /\ nsets = 0
    /\ arrived = <<>>
    /\ queue = <<>>
    /\ results = <<>>
    /\ loader = None
    /\ disk = (ModuleDir :> {LoaderPy})
    /\ listing = EmptyDict
    /\ samples_keys = <<>>

\* packet = cls.unpack(b)
CodecUnpack(cls, b) ==
    /\ pc = "codec"
    /\ packet' = unpack(cls, b)
    /\ buffer' = b
    /\ out' = None
    /\ nsets' = 0
    /\ UNCHANGED <<loader, disk, listing, classes, arrived, queue, results,
                   pc, HEADER_FIELD_TO_PACKET_TYPE, listener, samples, samples_keys,
                   packets_to_capture>>

\* packet = cls()
CodecNew(cls) ==
    /\ pc = "codec"
    /\ packet' = New(cls)
    /\ buffer' = <<>>
    /\ out' = None
    /\ nsets' = 0
    /\ UNCHANGED <<loader, disk, listing, classes, arrived, queue, results,
                   pc, HEADER_FIELD_TO_PACKET_TYPE, listener, samples, samples_keys,
                   packets_to_capture>>

\* packet.<path> = v, on a value the program is building
CodecSet(a) ==
    /\ pc = "codec"
    /\ packet.py = "cdata"
    /\ buffer = <<>>
    /\ a.cls = packet.cls
    /\ nsets < MaxSets
    /\ packet' = SetLeaf(packet, a.path, a.v)
    /\ nsets' = nsets + 1
    /\ out' = None
    /\ UNCHANGED <<loader, disk, listing, classes, arrived, queue, results,
                   pc, HEADER_FIELD_TO_PACKET_TYPE, listener, samples, samples_keys,
                   packets_to_capture, buffer>>

\* out = packet.pack()
CodecPack ==
    /\ pc = "codec"
    /\ packet.py = "cdata"
    /\ out' = PyBytes(pack(packet))
    /\ UNCHANGED <<loader, disk, listing, classes, arrived, queue, results,
                   pc, HEADER_FIELD_TO_PACKET_TYPE, listener, samples, samples_keys,
                   packets_to_capture, packet, buffer, nsets>>

\* out = type(packet).unpack(out): what was packed, decoded again
CodecUnpackPacked ==
    /\ pc = "codec"
    /\ packet.py = "cdata"
    /\ out.py = "bytes"
    /\ out' = unpack(packet.cls, out.b)
    /\ UNCHANGED <<loader, disk, listing, classes, arrived, queue, results,
                   pc, HEADER_FIELD_TO_PACKET_TYPE, listener, samples, samples_keys,
                   packets_to_capture, packet, buffer, nsets>>

\* (mutation) a to_dict that leaves the instance cleared
CodecToDict_clearing ==
    /\ pc = "codec"
    /\ packet.py = "cdata"
    /\ out' = to_dict(packet)
    /\ packet' = New(packet.cls)
    /\ UNCHANGED <<loader, disk, listing, classes, arrived, queue, results,
                   pc, HEADER_FIELD_TO_PACKET_TYPE, listener, samples, samples_keys,
                   packets_to_capture, buffer, nsets>>

\* out = packet.to_dict()
CodecToDict ==
    /\ pc = "codec"
    /\ packet.py = "cdata"
    /\ out' = to_dict(packet)
    /\ UNCHANGED <<loader, disk, listing, classes, arrived, queue, results,
                   pc, HEADER_FIELD_TO_PACKET_TYPE, listener, samples, samples_keys,
                   packets_to_capture, packet, buffer, nsets>>

\* the keyword arguments a caller gives packets.to_json
KwArgs ==
    { EmptyDict,
      [sort_keys |-> FALSE],
      [indent |-> 4],
      [indent |-> 0],
      [sort_keys |-> FALSE, indent |-> 4] }

\* out = to_json(packet.to_dict(), **kwargs)
CodecToJson(kwargs) ==
    /\ pc = "codec"
    /\ packet.py = "cdata"
    /\ out' = IF IsRaise(to_dict(packet)) THEN to_dict(packet)
              ELSE module_to_json(to_dict(packet), kwargs)
    /\ UNCHANGED <<loader, disk, listing, classes, arrived, queue, results,
                   pc, HEADER_FIELD_TO_PACKET_TYPE, listener, samples, samples_keys,
                   packets_to_capture, packet, buffer, nsets>>

CodecNext ==
    \/ \E i \in CodecInputs : CodecUnpack(i.cls, i.b)
    \/ \E c \in CodecClasses : CodecNew(c)
    \/ \E a \in Assignments : CodecSet(a)
    \/ CodecPack
    \/ CodecUnpackPacked
    \/ CodecToDict

CodecSpec == CodecInit /\ [][CodecNext]_vars

\* the program that decodes a buffer and dumps the mapping of the packet as
\* JSON: buffers of the size of their class, all zero or all letters
JsonNext ==
    \/ \E i \in {j \in CodecInputs : Len(j.b) = Layout[j.cls].size /\ j.b[1] \in {0, 66}} :
          CodecUnpack(i.cls, i.b)
    \/ \E kw \in KwArgs : CodecToJson(kw)

JsonSpec == CodecInit /\ [][JsonNext]_vars

(***************************************************************************)
(* Arrivals: a client of the library with the receive queue of its socket. *)
(* The socket is a datagram socket (SOCK_DGRAM): the operating system      *)
(* queues the datagrams in the order they arrive, and each recv takes the  *)
(* one at the head, whole, and blocks while the queue is empty.            *)
(***************************************************************************)
\* the number of datagrams that arrive in a run
MaxArrivals == 3

\* the datagrams that arrive, given the table L of the classes' sizes: an
\* event, an empty datagram, an id that is not registered, and a car
\* telemetry datagram longer than recv takes
ArrivalDatagramsOf(L) ==
    { Fill(Hdr(2021, 1, 3) \o FTLP, L["PacketEventData"].size, "ramp"),
      <<>>,
      Fill(Hdr(2021, 1, 12), L["PacketMotionData"].size, "zero"),
      Fill(Fill(Hdr(2021, 1, 6), L["PacketCarTelemetryData"].size, "zero"),
           RecvMax + 1, "high") }

ArrivalDatagrams == ArrivalDatagramsOf(Layout)

\* a datagram reaches the bound socket and is queued
Arrive(datagram) ==
    /\ listener # None
    /\ Len(arrived) < MaxArrivals
    /\ arrived' = Append(arrived, datagram)
    /\ queue' = Append(queue, datagram)
    /\ UNCHANGED <<loader, disk, listing, classes, pc, HEADER_FIELD_TO_PACKET_TYPE, listener, samples, samples_keys,
                   packets_to_capture, packet, buffer, out, nsets, results>>

\* (mutation) a get on a stream socket: what recv does not take of the
\* head stays in the queue
ClientGetQueued_stream ==
    /\ pc = "client"
    /\ queue # <<>>
    /\ LET r == TelemetryListener_get(listener, HEADER_FIELD_TO_PACKET_TYPE, Head(queue))
       IN  /\ packet' = r.ret
           /\ listener' = r.self
           /\ HEADER_FIELD_TO_PACKET_TYPE' = r.registry
           /\ results' = Append(results, r.ret)
    /\ buffer' = Head(queue)
    /\ queue' = IF Len(Head(queue)) > RecvMax
                THEN <<SubSeq(Head(queue), RecvMax + 1, Len(Head(queue)))>> \o Tail(queue)
                ELSE Tail(queue)
    /\ UNCHANGED <<loader, disk, listing, classes, pc, samples, samples_keys, packets_to_capture, out, nsets, arrived>>

\* the client calls listener.get() inside try/except and goes on: recv
\* returns when the queue holds a datagram, and takes the one at its head
ClientGetQueued ==
    /\ pc = "client"
    /\ queue # <<>>
    /\ LET r == TelemetryListener_get(listener, HEADER_FIELD_TO_PACKET_TYPE, Head(queue))
       IN  /\ packet' = r.ret
           /\ listener' = r.self
           /\ HEADER_FIELD_TO_PACKET_TYPE' = r.registry
           /\ results' = Append(results, r.ret)
    /\ buffer' = Head(queue)
    /\ queue' = Tail(queue)
    /\ UNCHANGED <<loader, disk, listing, classes, pc, samples, samples_keys, packets_to_capture, out, nsets, arrived>>

ArrivalNext ==
    \/ \E h \in Hosts, p \in Ports, ok \in BOOLEAN : ClientStart(h, p, ok)
    \/ \E d \in ArrivalDatagrams : Arrive(d)
    \/ ClientGetQueued

ArrivalSpec == Init /\ [][ArrivalNext]_vars

(***************************************************************************)
(* save_packets while the game keeps sending: every datagram received is   *)
(* of one of the ten types save_packets keeps in the registry and of the   *)
(* size of its class, so every get decodes, and a datagram of each type    *)
(* arrives again and again.                                                *)
(***************************************************************************)
\* the datagrams of Datagrams that carry a retained triple and are as long
\* as the class of the triple
RetainedDatagrams ==
    {d \in Datagrams :
        /\ Len(d) >= 24
        /\ <<d[1] + 256 * d[2], d[5], d[6]>> \in (DOMAIN InitialRegistry) \ Removed
        /\ Len(d) = Layout[InitialRegistry[<<d[1] + 256 * d[2], d[5], d[6]>>]].size}

\* save_packets is called and runs up to its loop
SaveStart == \E a \in OSErrorArgs : RunSavePackets(TRUE, a)

SaveNext ==
    \/ SaveStart
    \/ \E d \in RetainedDatagrams : SaveLoop(d) /\ samples_keys' \in ArrivalPrefixes
    \/ SaveWrite

\* the loop of save_packets waits in get with n samples stored
Waiting(n) ==
    /\ pc = "save_loop"
    /\ Cardinality(DOMAIN samples) = n

\* the loop of save_packets has ended and the statements after it have not
\* been executed yet
LoopEnded ==
    /\ pc = "save_loop"
    /\ Cardinality(DOMAIN samples) = Cardinality(DOMAIN HEADER_FIELD_TO_PACKET_TYPE)

\* The process runs: save_packets is called (weak fairness of SaveStart),
\* and once the loop has ended the statements after it are executed, which
\* is weak fairness of SaveWrite, a step that is enabled exactly when
\* LoopEnded holds and that leaves it.  The game goes on sending: while a
\* retained type has no sample, a datagram of such a type arrives and the
\* loop, which blocks in get, receives it, so the loop does not wait for
\* ever with the same number of samples.
SaveSpec ==
    /\ Init
    /\ [][SaveNext]_vars
    /\ WF_vars(SaveStart)
    /\ \A n \in 0..(Len(RetainedClasses) - 1) : []<>~Waiting(n)
    /\ []<>~LoopEnded
\* cleaned_packets.py: the _fields_ of every class of the module, by the name
\* of the class, in the order of the class statements
cleaned_packets ==
    [
      \* cleaned_packets.py:112-128
      PacketHeader |->
        << F("packet_format", "c_uint16", 0),
           F("game_major_version", "c_uint8", 0),
           F("game_minor_version", "c_uint8", 0),
           F("packet_version", "c_uint8", 0),
           F("packet_id", "c_uint8", 0),
           F("session_uid", "c_uint64", 0),
           F("session_time", "c_float", 0),
           F("frame_identifier", "c_uint32", 0),
           F("player_car_index", "c_uint8", 0),
           F("secondary_player_car_index", "c_uint8", 0) >>,
      \* cleaned_packets.py:131-157
      CarMotionData |->
        << F("world_position_x", "c_float", 0),
           F("world_position_y", "c_float", 0),
           F("world_position_z", "c_float", 0),
           F("world_velocity_x", "c_float", 0),
           F("world_velocity_y", "c_float", 0),
           F("world_velocity_z", "c_float", 0),
           F("world_forward_dir_x", "c_int16", 0),
           F("world_forward_dir_y", "c_int16", 0),
           F("world_forward_dir_z", "c_int16", 0),
           F("world_right_dir_x", "c_int16", 0),
           F("world_right_dir_y", "c_int16", 0),
           F("world_right_dir_z", "c_int16", 0),
           F("g_force_lateral", "c_float", 0),
           F("g_force_longitudinal", "c_float", 0),
           F("g_force_vertical", "c_float", 0),
           F("yaw", "c_float", 0),
           F("pitch", "c_float", 0),
           F("roll", "c_float", 0) >>,
      \* cleaned_packets.py:160-182
      PacketMotionData |->
        << F("header", "PacketHeader", 0),
           F("car_motion_data", "CarMotionData", 22),
           F("suspension_position", "c_float", 4),
           F("suspension_velocity", "c_float", 4),
           F("suspension_acceleration", "c_float", 4),
           F("wheel_speed", "c_float", 4),
           F("wheel_slip", "c_float", 4),
           F("local_velocity_x", "c_float", 0),
           F("local_velocity_y", "c_float", 0),
           F("local_velocity_z", "c_float", 0),
           F("angular_velocity_x", "c_float", 0),
           F("angular_velocity_y", "c_float", 0),
           F("angular_velocity_z", "c_float", 0),
           F("angular_acceleration_x", "c_float", 0),
           F("angular_acceleration_y", "c_float", 0),
           F("angular_acceleration_z", "c_float", 0),
           F("front_wheels_angle", "c_float", 0) >>,
      \* cleaned_packets.py:185-191
      MarshalZone |->
        << F("zone_start", "c_float", 0),
           F("zone_flag", "c_int8", 0) >>,
      \* cleaned_packets.py:194-211
      WeatherForecastSample |->
        << F("session_type", "c_uint8", 0),
           F("time_offset", "c_uint8", 0),
           F("weather", "c_uint8", 0),
           F("track_temperature", "c_int8", 0),
           F("track_temperature_change", "c_int8", 0),
           F("air_temperature", "c_int8", 0),
           F("air_temperature_change", "c_int8", 0),
           F("rain_percentage", "c_uint8", 0) >>,
      \* cleaned_packets.py:214-274
      PacketSessionData |->
        << F("header", "PacketHeader", 0),
           F("weather", "c_uint8", 0),
           F("track_temperature", "c_int8", 0),
           F("air_temperature", "c_int8", 0),
           F("total_laps", "c_uint8", 0),
           F("track_length", "c_uint16", 0),
           F("session_type", "c_uint8", 0),
           F("track_id", "c_int8", 0),
           F("formula", "c_uint8", 0),
           F("session_time_left", "c_uint16", 0),
           F("session_duration", "c_uint16", 0),
           F("pit_speed_limit", "c_uint8", 0),
           F("game_paused", "c_uint8", 0),
           F("is_spectating", "c_uint8", 0),
           F("spectator_car_index", "c_uint8", 0),
           F("sli_pro_native_support", "c_uint8", 0),
           F("num_marshal_zones", "c_uint8", 0),
           F("marshal_zones", "MarshalZone", 21),
           F("safety_car_status", "c_uint8", 0),
           F("network_game", "c_uint8", 0),
           F("num_weather_forecast_samples", "c_uint8", 0),
           F("weather_forecast_samples", "WeatherForecastSample", 56),
           F("forecast_accuracy", "c_uint8", 0),
           F("ai_difficulty", "c_uint8", 0),
           F("season_link_identifier", "c_uint32", 0),
           F("weekend_link_identifier", "c_uint32", 0),
           F("session_link_identifier", "c_uint32", 0),
           F("pit_stop_window_ideal_lap", "c_uint8", 0),
           F("pit_stop_window_latest_lap", "c_uint8", 0),
           F("pit_stop_rejoin_position", "c_uint8", 0),
           F("steering_assist", "c_uint8", 0),
           F("braking_assist", "c_uint8", 0),
           F("gearbox_assist", "c_uint8", 0),
           F("pit_assist", "c_uint8", 0),
           F("pit_release_assist", "c_uint8", 0),
           F("ersassist", "c_uint8", 0),
           F("drsassist", "c_uint8", 0),
           F("dynamic_racing_line", "c_uint8", 0),
           F("dynamic_racing_line_type", "c_uint8", 0) >>,
      \* cleaned_packets.py:277-322
      LapData |->
        << F("last_lap_time_in_ms", "c_uint32", 0),
           F("current_lap_time_in_ms", "c_uint32", 0),
           F("sector1_time_in_ms", "c_uint16", 0),
           F("sector2_time_in_ms", "c_uint16", 0),
           F("lap_distance", "c_float", 0),
           F("total_distance", "c_float", 0),
           F("safety_car_delta", "c_float", 0),
           F("car_position", "c_uint8", 0),
           F("current_lap_num", "c_uint8", 0),
           F("pit_status", "c_uint8", 0),
           F("num_pit_stops", "c_uint8", 0),
           F("sector", "c_uint8", 0),
           F("current_lap_invalid", "c_uint8", 0),
           F("penalties", "c_uint8", 0),
           F("warnings", "c_uint8", 0),
           F("num_unserved_drive_through_pens", "c_uint8", 0),
           F("num_unserved_stop_go_pens", "c_uint8", 0),
           F("grid_position", "c_uint8", 0),
           F("driver_status", "c_uint8", 0),
           F("result_status", "c_uint8", 0),
           F("pit_lane_timer_active", "c_uint8", 0),
           F("pit_lane_time_in_lane_in_ms", "c_uint16", 0),
           F("pit_stop_timer_in_ms", "c_uint16", 0),
           F("pit_stop_should_serve_pen", "c_uint8", 0) >>,
      \* cleaned_packets.py:325-329
      PacketLapData |->
        << F("header", "PacketHeader", 0),
           F("lap_data", "LapData", 22) >>,
      \* cleaned_packets.py:332-336
      FastestLap |->
        << F("vehicle_idx", "c_uint8", 0),
           F("lap_time", "c_float", 0) >>,
      \* cleaned_packets.py:339-342
      Retirement |->
        << F("vehicle_idx", "c_uint8", 0) >>,
      \* cleaned_packets.py:345-348
      TeamMateInPits |->
        << F("vehicle_idx", "c_uint8", 0) >>,
      \* cleaned_packets.py:351-354
      RaceWinner |->
        << F("vehicle_idx", "c_uint8", 0) >>,
      \* cleaned_packets.py:357-369
      Penalty |->
        << F("penalty_type", "c_uint8", 0),
           F("infringement_type", "c_uint8", 0),
           F("vehicle_idx", "c_uint8", 0),
           F("other_vehicle_idx", "c_uint8", 0),
           F("time", "c_uint8", 0),
           F("lap_num", "c_uint8", 0),
           F("places_gained", "c_uint8", 0) >>,
      \* cleaned_packets.py:372-381
      SpeedTrap |->
        << F("vehicle_idx", "c_uint8", 0),
           F("speed", "c_float", 0),
           F("overall_fastest_in_session", "c_uint8", 0),
           F("driver_fastest_in_session", "c_uint8", 0) >>,
      \* cleaned_packets.py:384-387
      StartLights |->
        << F("num_lights", "c_uint8", 0) >>,
      \* cleaned_packets.py:390-394
      DriveThroughPenaltyServed |->
        << F("vehicle_idx", "c_uint8", 0) >>,
      \* cleaned_packets.py:397-401
      StopGoPenaltyServed |->
        << F("vehicle_idx", "c_uint8", 0) >>,
      \* cleaned_packets.py:404-409
      Flashback |->
        << F("flashback_frame_identifier", "c_uint32", 0),
           F("flashback_session_time", "c_float", 0) >>,
      \* cleaned_packets.py:412-417
      Buttons |->
        << F("button_status", "c_uint32", 0) >>,
      \* cleaned_packets.py:420-433
      EventDataDetails |->
        << F("fastest_lap", "FastestLap", 0),
           F("retirement", "Retirement", 0),
           F("team_mate_in_pits", "TeamMateInPits", 0),
           F("race_winner", "RaceWinner", 0),
           F("penalty", "Penalty", 0),
           F("speed_trap", "SpeedTrap", 0),
           F("start_lights", "StartLights", 0),
           F("drive_through_penalty_served", "DriveThroughPenaltyServed", 0),
           F("stop_go_penalty_served", "StopGoPenaltyServed", 0),
           F("flashback", "Flashback", 0),
           F("buttons", "Buttons", 0) >>,
      \* cleaned_packets.py:436-443
      PacketEventData |->
        << F("header", "PacketHeader", 0),
           F("event_string_code", "c_uint8", 4),
           F("event_details", "EventDataDetails", 0) >>,
      \* cleaned_packets.py:446-463
      ParticipantData |->
        << F("ai_controlled", "c_uint8", 0),
           F("driver_id", "c_uint8", 0),
           F("network_id", "c_uint8", 0),
           F("team_id", "c_uint8", 0),
           F("my_team", "c_uint8", 0),
           F("race_number", "c_uint8", 0),
           F("nationality", "c_uint8", 0),
           F("name", "c_char", 48),
           F("your_telemetry", "c_uint8", 0) >>,
      \* cleaned_packets.py:466-473
      PacketParticipantsData |->
        << F("header", "PacketHeader", 0),
           F("num_active_cars", "c_uint8", 0),
           F("participants", "ParticipantData", 22) >>,
      \* cleaned_packets.py:476-505
      CarSetupData |->
        << F("front_wing", "c_uint8", 0),
           F("rear_wing", "c_uint8", 0),
           F("on_throttle", "c_uint8", 0),
           F("off_throttle", "c_uint8", 0),
           F("front_camber", "c_float", 0),
           F("rear_camber", "c_float", 0),
           F("front_toe", "c_float", 0),
           F("rear_toe", "c_float", 0),
           F("front_suspension", "c_uint8", 0),
           F("rear_suspension", "c_uint8", 0),
           F("front_anti_roll_bar", "c_uint8", 0),
           F("rear_anti_roll_bar", "c_uint8", 0),
           F("front_suspension_height", "c_uint8", 0),
           F("rear_suspension_height", "c_uint8", 0),
           F("brake_pressure", "c_uint8", 0),
           F("brake_bias", "c_uint8", 0),
           F("rear_left_tyre_pressure", "c_float", 0),
           F("rear_right_tyre_pressure", "c_float", 0),
           F("front_left_tyre_pressure", "c_float", 0),
           F("front_right_tyre_pressure", "c_float", 0),
           F("ballast", "c_uint8", 0),
           F("fuel_load", "c_float", 0) >>,
      \* cleaned_packets.py:508-512
      PacketCarSetupData |->
        << F("header", "PacketHeader", 0),
           F("car_setups", "CarSetupData", 22) >>,
      \* cleaned_packets.py:515-537
      CarTelemetryData |->
        << F("speed", "c_uint16", 0),
           F("throttle", "c_float", 0),
           F("steer", "c_float", 0),
           F("brake", "c_float", 0),
           F("clutch", "c_uint8", 0),
           F("gear", "c_int8", 0),
           F("engine_rpm", "c_uint16", 0),
           F("drs", "c_uint8", 0),
           F("rev_lights_percent", "c_uint8", 0),
           F("rev_lights_bit_value", "c_uint16", 0),
           F("brakes_temperature", "c_uint16", 4),
           F("tyre_surface_temperature", "c_uint8", 4),
           F("tyre_inner_temperature", "c_uint8", 4),
           F("engine_temperature", "c_uint16", 0),
           F("tyre_pressure", "c_float", 4),
           F("surface_type", "c_uint8", 4) >>,
      \* cleaned_packets.py:540-552
      PacketCarTelemetryData |->
        << F("header", "PacketHeader", 0),
           F("car_telemetry_data", "CarTelemetryData", 22),
           F("mfd_panel_index", "c_uint8", 0),
           F("mfd_panel_index_secondary_player", "c_uint8", 0),
           F("suggested_gear", "c_int8", 0) >>,
      \* cleaned_packets.py:555-603
      CarStatusData |->
        << F("traction_control", "c_uint8", 0),
           F("anti_lock_brakes", "c_uint8", 0),
           F("fuel_mix", "c_uint8", 0),
           F("front_brake_bias", "c_uint8", 0),
           F("pit_limiter_status", "c_uint8", 0),
           F("fuel_in_tank", "c_float", 0),
           F("fuel_capacity", "c_float", 0),
           F("fuel_remaining_laps", "c_float", 0),
           F("max_rpm", "c_uint16", 0),
           F("idle_rpm", "c_uint16", 0),
           F("max_gears", "c_uint8", 0),
           F("drs_allowed", "c_uint8", 0),
           F("drs_activation_distance", "c_uint16", 0),
           F("actual_tyre_compound", "c_uint8", 0),
           F("visual_tyre_compound", "c_uint8", 0),
           F("tyre_age_laps", "c_uint8", 0),
           F("vehicle_fia_flags", "c_int8", 0),
           F("ers_store_energy", "c_float", 0),
           F("ers_deploy_mode", "c_uint8", 0),
           F("ers_harvested_this_lap_mguk", "c_float", 0),
           F("ers_harvested_this_lap_mguh", "c_float", 0),
           F("ers_deployed_this_lap", "c_float", 0),
           F("network_paused", "c_uint8", 0) >>,
      \* cleaned_packets.py:606-610
      PacketCarStatusData |->
        << F("header", "PacketHeader", 0),
           F("car_status_data", "CarStatusData", 22) >>,
      \* cleaned_packets.py:613-636
      FinalClassificationData |->
        << F("position", "c_uint8", 0),
           F("num_laps", "c_uint8", 0),
           F("grid_position", "c_uint8", 0),
           F("points", "c_uint8", 0),
           F("num_pit_stops", "c_uint8", 0),
           F("result_status", "c_uint8", 0),
           F("best_lap_time_in_ms", "c_uint32", 0),
           F("total_race_time", "c_double", 0),
           F("penalties_time", "c_uint8", 0),
           F("num_penalties", "c_uint8", 0),
           F("num_tyre_stints", "c_uint8", 0),
           F("tyre_stints_actual", "c_uint8", 8),
           F("tyre_stints_visual", "c_uint8", 8) >>,
      \* cleaned_packets.py:639-644
      PacketFinalClassificationData |->
        << F("header", "PacketHeader", 0),
           F("num_cars", "c_uint8", 0),
           F("classification_data", "FinalClassificationData", 22) >>,
      \* cleaned_packets.py:647-659
      LobbyInfoData |->
        << F("ai_controlled", "c_uint8", 0),
           F("team_id", "c_uint8", 0),
           F("nationality", "c_uint8", 0),
           F("name", "c_char", 48),
           F("car_number", "c_uint8", 0),
           F("ready_status", "c_uint8", 0) >>,
      \* cleaned_packets.py:662-668
      PacketLobbyInfoData |->
        << F("header", "PacketHeader", 0),
           F("num_players", "c_uint8", 0),
           F("lobby_players", "LobbyInfoData", 22) >>,
      \* cleaned_packets.py:671-693
      CarDamageData |->
        << F("tyre_wear", "c_float", 4),
           F("tyre_damage", "c_uint8", 4),
           F("brakes_damage", "c_uint8", 4),
           F("front_left_wing_damage", "c_uint8", 0),
           F("front_right_wing_damage", "c_uint8", 0),
           F("rear_wing_damage", "c_uint8", 0),
           F("floor_damage", "c_uint8", 0),
           F("diffuser_damage", "c_uint8", 0),
           F("sidepod_damage", "c_uint8", 0),
           F("drs_fault", "c_uint8", 0),
           F("gear_box_damage", "c_uint8", 0),
           F("engine_damage", "c_uint8", 0),
           F("engine_mguhwear", "c_uint8", 0),
           F("engine_eswear", "c_uint8", 0),
           F("engine_cewear", "c_uint8", 0),
           F("engine_icewear", "c_uint8", 0),
           F("engine_mgukwear", "c_uint8", 0),
           F("engine_tcwear", "c_uint8", 0) >>,
      \* cleaned_packets.py:696-700
      PacketCarDamageData |->
        << F("header", "PacketHeader", 0),
           F("car_damage_data", "CarDamageData", 22) >>,
      \* cleaned_packets.py:703-712
      LapHistoryData |->
        << F("lap_time_in_ms", "c_uint32", 0),
           F("sector1_time_in_ms", "c_uint16", 0),
           F("sector2_time_in_ms", "c_uint16", 0),
           F("sector3_time_in_ms", "c_uint16", 0),
           F("lap_valid_bit_flags", "c_uint8", 0) >>,
      \* cleaned_packets.py:715-721
      TyreStintHistoryData |->
        << F("end_lap", "c_uint8", 0),
           F("tyre_actual_compound", "c_uint8", 0),
           F("tyre_visual_compound", "c_uint8", 0) >>,
      \* cleaned_packets.py:724-741
      PacketSessionHistoryData |->
        << F("header", "PacketHeader", 0),
           F("car_idx", "c_uint8", 0),
           F("num_laps", "c_uint8", 0),
           F("num_tyre_stints", "c_uint8", 0),
           F("best_lap_time_lap_num", "c_uint8", 0),
           F("best_sector1_lap_num", "c_uint8", 0),
           F("best_sector2_lap_num", "c_uint8", 0),
           F("best_sector3_lap_num", "c_uint8", 0),
           F("lap_history_data", "LapHistoryData", 100),
           F("tyre_stints_history_data", "TyreStintHistoryData", 8) >> ]

\* cleaned_packets.HEADER_FIELD_TO_PACKET_TYPE
cleaned_HEADER_FIELD_TO_PACKET_TYPE ==
    (<<2021, 1, 0>> :> "PacketMotionData")
    @@ (<<2021, 1, 1>> :> "PacketSessionData")
    @@ (<<2021, 1, 2>> :> "PacketLapData")
    @@ (<<2021, 1, 3>> :> "PacketEventData")
    @@ (<<2021, 1, 4>> :> "PacketParticipantsData")
    @@ (<<2021, 1, 5>> :> "PacketCarSetupData")
    @@ (<<2021, 1, 6>> :> "PacketCarTelemetryData")
    @@ (<<2021, 1, 7>> :> "PacketCarStatusData")
    @@ (<<2021, 1, 8>> :> "PacketFinalClassificationData")
    @@ (<<2021, 1, 9>> :> "PacketLobbyInfoData")
    @@ (<<2021, 1, 10>> :> "PacketCarDamageData")
    @@ (<<2021, 1, 11>> :> "PacketSessionHistoryData")

RECURSIVE cleaned_end(_, _), cleaned_sizeof(_)

\* (mutation) sizes that are whole numbers of 4-byte words
cleaned_sizeof_words(ct) == 4 * ((SizeOf(ct) + 3) \div 4)

\* ctypes.sizeof for the types of cleaned_packets.py.  Its Packet has
\* _pack_ = 1 (line 106), so a Structure is as long as its fields together;
\* the Union EventDataDetails (its members are Structures of alignment 1) is
\* as long as its longest member.
cleaned_sizeof(ct) ==
    IF ct \notin DOMAIN cleaned_packets THEN PrimSize(ct)
    ELSE IF IsUnion(ct)
    THEN LET s == {cleaned_sizeof(cleaned_packets[ct][i].ctype) :
                      i \in 1..Len(cleaned_packets[ct])}
         IN  CHOOSE m \in s : \A x \in s : x <= m
    ELSE cleaned_end(ct, Len(cleaned_packets[ct]))

\* the first byte after the first n fields of the Structure cls
cleaned_end(cls, n) ==
    IF n = 0 THEN 0
    ELSE LET f == cleaned_packets[cls][n]
         IN  cleaned_end(cls, n - 1)
               + cleaned_sizeof(f.ctype) * (IF f.count = 0 THEN 1 ELSE f.count)

\* What the import of cleaned_packets.py leaves in every class object
CleanedLayout ==
    [c \in DOMAIN cleaned_packets |->
        [fields |-> cleaned_packets[c],
         size |-> cleaned_sizeof(c),
         offsets |-> [i \in 1..Len(cleaned_packets[c]) |->
                         IF IsUnion(c) THEN 0 ELSE cleaned_end(c, i - 1)]]]

\* getattr(inst, name) for every (name, type) of _fields_, in their order
FieldValues(inst) ==
    [i \in 1..Len(classes[inst.cls].fields) |->
        GetAttr(inst, classes[inst.cls].fields[i].name)]

\* packet = cls.unpack(b) with the class cls of the module that is
\* imported, and a record of what it gave: first with packets.py, then,
\* for the same class name and buffer, with cleaned_packets.py
CmpUnpack(cls, b) ==
    /\ pc = "codec"
    /\ Len(results) < 2
    /\ results # <<>> => (cls = results[1].cls /\ b = buffer /\ classes = CleanedLayout)
    /\ packet' = unpack(cls, b)
    /\ buffer' = b
    /\ results' = Append(results,
                         [cls |-> cls,
                          size |-> size(cls),
                          raised |-> IsRaise(packet'),
                          values |-> IF IsRaise(packet') THEN <<>> ELSE FieldValues(packet')])
    /\ UNCHANGED <<loader, disk, listing, classes, arrived, queue, pc, HEADER_FIELD_TO_PACKET_TYPE, listener,
                   samples, samples_keys, packets_to_capture, out, nsets>>

\* the program goes on with cleaned_packets in the place of packets
CmpImportCleaned ==
    /\ pc = "codec"
    /\ Len(results) = 1
    /\ classes = Layout
    /\ classes' = CleanedLayout
    /\ HEADER_FIELD_TO_PACKET_TYPE' = cleaned_HEADER_FIELD_TO_PACKET_TYPE
    /\ packet' = None
    /\ UNCHANGED <<loader, disk, listing, arrived, queue, results, pc, listener, samples, samples_keys, packets_to_capture,
                   buffer, out, nsets>>

\* the buffers of the codec program, and for every class of the schema,
\* the nested ones included, buffers of its size
CleanedNext ==
    \/ \E i \in CodecInputs \cup
                 { [cls |-> c, b |-> Fill(<<>>, Layout[c].size, p)] :
                       c \in Classes, p \in {"ramp", "text"} } :
          CmpUnpack(i.cls, i.b)
    \/ CmpImportCleaned

CleanedSpec == CodecInit /\ [][CleanedNext]_vars

(***************************************************************************)
(* example_packets/loader.py: a program that builds a PacketLoader and     *)
(* calls fetch_packets.  Strings are sequences of code points; disk gives  *)
(* for every directory the names of the files in it, and does not change   *)
(* while the program runs.                                                 *)
(***************************************************************************)
\* a directory of captures: '/caps'
CapsDir == PyStr(<<47, 99, 97, 112, 115>>)

\* the names a directory may hold: 'Lap.pickle', 'Event.pickle',
\* 'Lap.pickle.pickle', 'Lap.json', 'old.pickle.bak'
FileNames ==
    { <<76, 97, 112, 46, 112, 105, 99, 107, 108, 101>>,
      <<69, 118, 101, 110, 116, 46, 112, 105, 99, 107, 108, 101>>,
      <<76, 97, 112, 46, 112, 105, 99, 107, 108, 101, 46, 112, 105, 99, 107, 108, 101>>,
      <<76, 97, 112, 46, 106, 115, 111, 110>>,
      <<111, 108, 100, 46, 112, 105, 99, 107, 108, 101, 46, 98, 97, 107>> }

\* str.replace('.pickle', ''): every occurrence is taken out, from the left
RECURSIVE replace_pickle(_)
replace_pickle(s) ==
    IF Len(s) < Len(DotPickle) THEN s
    ELSE IF SubSeq(s, 1, Len(DotPickle)) = DotPickle
    THEN replace_pickle(SubSeq(s, Len(DotPickle) + 1, Len(s)))
    ELSE <<s[1]>> \o replace_pickle(SubSeq(s, 2, Len(s)))

\* the orders in which a file system may list the names S
Orders(S) ==
    { l \in [1..Cardinality(S) -> S] : \A i, j \in DOMAIN l : l[i] = l[j] => i = j }

\* the ways the next listing of a directory may go, when the listings in
\* `listed` were given so far: a directory that is not there has no names;
\* one listed before, with the same names still, gives them in the same
\* order; the file system chooses the order otherwise
Listings(files, listed, dir) ==
    IF dir \notin DOMAIN files THEN {<<>>}
    ELSE IF dir \in DOMAIN listed /\ {listed[dir][i] : i \in DOMAIN listed[dir]} = files[dir]
    THEN {listed[dir]}
    ELSE Orders(files[dir])

EndsWithPickle(x) ==
    /\ Len(x) >= Len(DotPickle)
    /\ SubSeq(x, Len(x) - Len(DotPickle) + 1, Len(x)) = DotPickle

\* Path.glob(pattern='*.pickle'): the paths of the names of the directory
\* that end with '.pickle', in the order names lists them
glob(names, dir) ==
    LET m == SelectSeq(names, EndsWithPickle)
    IN  [i \in 1..Len(m) |-> PyStr(dir.cp \o <<47>> \o m[i])]

\* (mutation) a constructor that keeps the path it is given
PacketLoader_keeping(path_to_packets) ==
    [py |-> "PacketLoader",
     packets |-> EmptyDict,
     path_to_packets |-> IF path_to_packets = None \/ path_to_packets = PyStr(<<>>)
                         THEN ModuleDir ELSE path_to_packets]

\* PacketLoader.__init__: the attribute path_to_packets is set only when the
\* argument is None or empty; packets starts empty
PacketLoader(path_to_packets) ==
    IF path_to_packets = None \/ path_to_packets = PyStr(<<>>)
    THEN [py |-> "PacketLoader", packets |-> EmptyDict, path_to_packets |-> ModuleDir]
    ELSE [py |-> "PacketLoader", packets |-> EmptyDict]

\* PacketLoader.fetch_packets, the directory listing its names in the
\* order `names`: what it returns or raises (ret) and the loader as the
\* call leaves it.  Every *.pickle file of the directory is loaded and
\* stored under its path without '.pickle'; of two files that give one
\* key, the one that comes later stays.
fetch_packets(self, names) ==
    IF "path_to_packets" \notin DOMAIN self
    THEN [ret |-> Raise("AttributeError"), self |-> self]
    ELSE LET found  == glob(names, self.path_to_packets)
             Key(i) == PyStr(replace_pickle(found[i].cp))
             keys   == {Key(i) : i \in DOMAIN found}
             Last(k) == CHOOSE i \in DOMAIN found :
                           /\ Key(i) = k
                           /\ \A j \in DOMAIN found : Key(j) = k => j <= i
             d      == [k \in (DOMAIN self.packets) \cup keys |->
                          IF k \in keys
                          THEN [py |-> "unpickled", file |-> found[Last(k)]]
                          ELSE self.packets[k]]
             s      == [self EXCEPT !.packets = d]
         IN  [ret |-> [py |-> "dict", d |-> d], self |-> s]

\* the names the directory of captures may hold
CapsNames ==
    { <<76, 97, 112, 46, 112, 105, 99, 107, 108, 101>>,
      <<76, 97, 112, 46, 112, 105, 99, 107, 108, 101, 46, 112, 105, 99, 107, 108, 101>> }

\* the paths a program gives the constructor
LoaderPaths == {None, PyStr(<<>>), ModuleDir, CapsDir}

LoaderInit ==
    /\ classes = Layout
    /\ pc = "start"
    /\ HEADER_FIELD_TO_PACKET_TYPE = InitialRegistry
    /\ listener = None
    /\ samples = EmptyDict
    /\ packets_to_capture = EmptyDict
    /\ packet = None
    /\ buffer = <<>>
    /\ out = None
    /\ nsets = 0
    /\ arrived = <<>>
    /\ queue = <<>>
    /\ results = <<>>
    /\ loader = None
    /\ disk \in { (ModuleDir :> ({LoaderPy} \cup m)) @@ (CapsDir :> c) :
                    m \in SUBSET FileNames, c \in SUBSET CapsNames }
    /\ listing = EmptyDict
    /\ samples_keys = <<>>

\* loader = PacketLoader(path)
LoaderNew(path) ==
    /\ pc = "start"
    /\ loader' = PacketLoader(path)
    /\ pc' = "loader"
    /\ UNCHANGED <<classes, disk, listing, arrived, queue, results,
                   HEADER_FIELD_TO_PACKET_TYPE, listener, samples, samples_keys,
                   packets_to_capture, packet, buffer, out, nsets>>

\* out = loader.fetch_packets(): the directory is listed when the loader
\* has one
LoaderFetch ==
    /\ pc = "loader"
    /\ IF "path_to_packets" \in DOMAIN loader
       THEN \E names \in Listings(disk, listing, loader.path_to_packets) :
               /\ listing' = (loader.path_to_packets :> names) @@ listing
               /\ \E r \in {fetch_packets(loader, names)} :
                     loader' = r.self /\ out' = r.ret /\ pc' = "loader"
       ELSE /\ listing' = listing
            /\ \E r \in {fetch_packets(loader, <<>>)} :
                  loader' = r.self /\ out' = r.ret /\ pc' = "traceback"
    /\ UNCHANGED <<classes, disk, arrived, queue, results, HEADER_FIELD_TO_PACKET_TYPE,
                   listener, samples, samples_keys, packets_to_capture, packet, buffer,
                   nsets>>

LoaderNext ==
    \/ \E p \in LoaderPaths : LoaderNew(p)
    \/ LoaderFetch

LoaderSpec == LoaderInit /\ [][LoaderNext]_vars

(***************************************************************************)
(* Properties.                                                             *)
(***************************************************************************)
\* the (format, version, id) triple as the wire carries it: format in the
\* two bytes at offset 0, least significant first, version at 4, id at 5
KeyAt(b) == <<b[1] + 256 * b[2], b[5], b[6]>>

\* a get of the listener has returned or raised in a process that goes on:
\* packet is what it gave for the datagram in buffer
AfterGet == pc \in {"client", "main_loop"} /\ packet # None

\* the packet_id table of the specification
PacketIdTable ==
    [id \in 0..11 |->
        <<"PacketMotionData", "PacketSessionData", "PacketLapData", "PacketEventData",
          "PacketParticipantsData", "PacketCarSetupData", "PacketCarTelemetryData",
          "PacketCarStatusData", "PacketFinalClassificationData", "PacketLobbyInfoData",
          "PacketCarDamageData", "PacketSessionHistoryData">>[id + 1]]

\* C1: the registry lookup is sound and total.  In every state the key
\* (2021, 1, id) is registered for each id in 0..11 and maps to the class of
\* the packet_id table, and a get on a datagram that carries a whole header
\* gives the decode by that class when the triple is one of the 12, and
\* KeyError for every other triple.
C1_LookupSoundAndTotal ==
    /\ \A id \in 0..11 :
          /\ <<2021, 1, id>> \in DOMAIN HEADER_FIELD_TO_PACKET_TYPE
          /\ HEADER_FIELD_TO_PACKET_TYPE[<<2021, 1, id>>] = PacketIdTable[id]
    /\ (AfterGet /\ Len(recv(buffer)) >= size("PacketHeader")) =>
          IF KeyAt(buffer) \in {<<2021, 1, id>> : id \in 0..11}
          THEN packet = unpack(PacketIdTable[KeyAt(buffer)[3]], recv(buffer))
          ELSE packet = Raise("KeyError")

\* C2: the registry is read-only after construction: it holds its 12
\* initial rows in every reachable state.
C2_RegistryReadOnly == HEADER_FIELD_TO_PACKET_TYPE = InitialRegistry

\* C3: byte round trip.  When a buffer of exactly the size of the class has
\* been decoded and the value packed, the bytes packed are the buffer.
C3_ByteRoundTrip ==
    (/\ pc = "codec"
     /\ out.py = "bytes"
     /\ buffer # <<>>
     /\ Len(buffer) = size(packet.cls)) => out.b = buffer

\* an event and a lap data packet have been decoded from bytes that are not
\* zero in the details of the event, and packed
C3_Witness ==
    /\ pc = "codec"
    /\ out.py = "bytes"
    /\ packet.cls \in {"PacketEventData", "PacketLapData"}
    /\ Len(buffer) = size(packet.cls)
    /\ buffer[Len(buffer)] # 0
    /\ out.b[Len(buffer)] = buffer[Len(buffer)]

\* C4: value round trip.  For a value built by the constructor and field
\* assignments within the fields' ranges, pack gives size() bytes, and
\* decoding them gives a value of the class with the same value in every
\* field assigned (nested records and array slots included) and the same
\* mapping of all its fields.
C4_ValueRoundTrip ==
    (pc = "codec" /\ buffer = <<>> /\ packet.py = "cdata") =>
        /\ out.py # "raise"
        /\ out.py = "bytes" => Len(out.b) = size(packet.cls)
        /\ out.py = "cdata" =>
              /\ out.cls = packet.cls
              /\ \A a \in Assignments :
                    a.cls = packet.cls => GetLeaf(out, a.path) = GetLeaf(packet, a.path)
              /\ to_dict(out) = to_dict(packet)

\* a header with two fields assigned has been packed and decoded again: the
\* session time reads as the float nearest to 0.1, the uid as 2^64 - 1
C4_Witness ==
    /\ pc = "codec"
    /\ buffer = <<>>
    /\ nsets = 2
    /\ out.py = "cdata"
    /\ out.cls = "PacketHeader"
    /\ GetLeaf(out, <<Step("m_session_time", 0)>>) = GetFloat(<<205, 204, 204, 61>>)
    /\ GetLeaf(out, <<Step("m_session_uid", 0)>>) = PyLong(<<65535, 65535, 65535, 65535>>)

\* C5: truncation.  unpack of every registered class raises ValueError on
\* received bytes shorter than the class, and a get on a datagram shorter
\* than the header, or than the class its header selects, raises ValueError
\* and returns no packet.
C5_TruncatedBufferRaises ==
    AfterGet =>
        /\ \A T \in {InitialRegistry[k] : k \in DOMAIN InitialRegistry} :
              Len(recv(buffer)) < size(T) => unpack(T, recv(buffer)) = Raise("ValueError")
        /\ Len(recv(buffer)) < size("PacketHeader") => packet = Raise("ValueError")
        /\ (/\ Len(recv(buffer)) >= size("PacketHeader")
            /\ KeyAt(buffer) \in DOMAIN HEADER_FIELD_TO_PACKET_TYPE
            /\ Len(recv(buffer)) < size(HEADER_FIELD_TO_PACKET_TYPE[KeyAt(buffer)]))
           => packet = Raise("ValueError")

\* get has raised on a motion datagram one byte short
C5_Witness ==
    /\ pc = "client"
    /\ packet = Raise("ValueError")
    /\ Len(buffer) = size("PacketMotionData") - 1
    /\ KeyAt(buffer) = <<2021, 1, 0>>

\* C6: decode errors are per call.  A get of the client that raises KeyError
\* or ValueError leaves the listener as it was, its socket open, and the
\* registry unchanged, and a get after it gives for every datagram what a
\* get before it gave.
C6_DecodeErrorsArePerCall ==
    [][(/\ pc = "client"
        /\ pc' = "client"
        /\ IsRaise(packet')
        /\ packet'.exc \in {"KeyError", "ValueError"})
       => /\ listener' = listener
          /\ listener'.socket.open
          /\ HEADER_FIELD_TO_PACKET_TYPE' = HEADER_FIELD_TO_PACKET_TYPE
          /\ \A d \in Datagrams :
                TelemetryListener_get(listener', HEADER_FIELD_TO_PACKET_TYPE', d).ret
                = TelemetryListener_get(listener, HEADER_FIELD_TO_PACKET_TYPE, d).ret]_vars

\* a get of the client has raised KeyError, and the listener is as it was
\* built and the registry whole
C6_Witness ==
    /\ pc = "client"
    /\ packet = Raise("KeyError")
    /\ listener.socket.open
    /\ HEADER_FIELD_TO_PACKET_TYPE = InitialRegistry

\* C7: union resolution.  The mapping of decoded event details that hold
\* the bytes of one shape, the rest zero, has the fields of that shape (or
\* the one entry of that shape's member) and no entry of another shape.
C7_UnionResolved ==
    (/\ pc = "codec"
     /\ packet.py = "cdata"
     /\ packet.cls = "EventDataDetails"
     /\ buffer \in {ShapeRegion(Layout, s) : s \in EventShapes}
     /\ out.py = "dict")
    => \E s \in EventShapes :
          /\ buffer = ShapeRegion(Layout, s)
          /\ DOMAIN out.d \in
                { FieldNames(s),
                  { classes["EventDataDetails"].fields[i].name :
                      i \in { j \in 1..Len(classes["EventDataDetails"].fields) :
                                classes["EventDataDetails"].fields[j].ctype = s } } }

\* C8: an event whose code is not a known event code is not decoded: a get
\* on an event datagram with the code "XXXX" raises and returns no event.
\* PacketEventData keeps the code as four c_uint8 and unpack copies them
\* unread, so the get returns an event with that code.
C8_UnknownEventCodeFails ==
    (/\ AfterGet
     /\ Len(recv(buffer)) >= size("PacketEventData")
     /\ KeyAt(buffer) = <<2021, 1, 3>>
     /\ SubSeq(buffer, 25, 28) = XXXX) => IsRaise(packet)

\* C9: packing a decoded fastest lap event gives zeros in the event details
\* after the bytes of the shape FastestLap, whatever was decoded there.
C9_TrailingBytesZeroed ==
    (/\ pc = "codec"
     /\ out.py = "bytes"
     /\ buffer # <<>>
     /\ packet.cls = "PacketEventData"
     /\ SubSeq(buffer, 25, 28) = FTLP)
    => \A k \in (classes["PacketEventData"].offsets[3] + size("FastestLap") + 1)
                ..size("PacketEventData") : out.b[k] = 0

\* C9 as the code has it: packing a decoded event, or decoded event
\* details, gives the bytes of the details as they were decoded, those
\* after the shape included.
C9_DetailsKeptAsDecoded ==
    (/\ pc = "codec"
     /\ out.py = "bytes"
     /\ buffer # <<>>
     /\ packet.cls \in {"PacketEventData", "EventDataDetails"})
    => LET off == IF packet.cls = "PacketEventData"
                  THEN classes["PacketEventData"].offsets[3] ELSE 0
           n   == size("EventDataDetails")
       IN  /\ Len(out.b) = off + n
           /\ SubSeq(out.b, off + 1, off + n) = SubSeq(buffer, off + 1, off + n)

\* a fastest lap event whose details end in bytes that are not zero has
\* been decoded and packed, and the bytes packed end in them
C9_Witness ==
    /\ pc = "codec"
    /\ out.py = "bytes"
    /\ packet.cls = "PacketEventData"
    /\ SubSeq(buffer, 25, 28) = FTLP
    /\ \A k \in 34..36 : buffer[k] # 0 /\ out.b[k] = buffer[k]

\* C10: the header is the first 24 bytes of every packet, its fields at the
\* offsets 0, 2, 3, 4, 5, 6, 14, 18, 22, 23 with the widths u16, u8, u8, u8,
\* u8, u64, f32, u32, u8, u8, read least significant byte first, and the
\* class get decodes with is the one registered for the bytes at 0, 4, 5.
C10_HeaderLayout ==
    /\ classes["PacketHeader"].size = 24
    /\ classes["PacketHeader"].offsets = <<0, 2, 3, 4, 5, 6, 14, 18, 22, 23>>
    /\ [i \in 1..10 |-> classes["PacketHeader"].fields[i].ctype]
         = <<"c_uint16", "c_uint8", "c_uint8", "c_uint8", "c_uint8", "c_uint64",
             "c_float", "c_uint32", "c_uint8", "c_uint8">>
    /\ [i \in 1..10 |-> classes["PacketHeader"].fields[i].name]
         = <<"m_packet_format", "m_game_major_version", "m_game_minor_version",
             "m_packet_version", "m_packet_id", "m_session_uid", "m_session_time",
             "m_frame_identifier", "m_player_car_index",
             "m_secondary_player_car_index">>
    /\ \A T \in {InitialRegistry[k] : k \in DOMAIN InitialRegistry} :
          /\ classes[T].fields[1] = F("m_header", "PacketHeader", 0)
          /\ classes[T].offsets[1] = 0
    /\ (AfterGet /\ packet.py = "cdata") =>
          LET b == buffer
              h == GetAttr(packet, "m_header")
          IN  /\ packet.cls = HEADER_FIELD_TO_PACKET_TYPE[KeyAt(b)]
              /\ GetAttr(h, "m_packet_format") = PyInt(b[1] + 256 * b[2])
              /\ GetAttr(h, "m_game_major_version") = PyInt(b[3])
              /\ GetAttr(h, "m_game_minor_version") = PyInt(b[4])
              /\ GetAttr(h, "m_packet_version") = PyInt(b[5])
              /\ GetAttr(h, "m_packet_id") = PyInt(b[6])
              /\ GetAttr(h, "m_session_uid")
                   = PyLong(<<b[7] + 256 * b[8], b[9] + 256 * b[10],
                              b[11] + 256 * b[12], b[13] + 256 * b[14]>>)
              /\ GetAttr(h, "m_session_time") = GetFloat(SubSeq(b, 15, 18))
              /\ GetAttr(h, "m_frame_identifier")
                   = PyLong(<<b[19] + 256 * b[20], b[21] + 256 * b[22]>>)
              /\ GetAttr(h, "m_player_car_index") = PyInt(b[23])
              /\ GetAttr(h, "m_secondary_player_car_index") = PyInt(b[24])

\* get has returned a car status packet whose header reads format 2021,
\* uid 123456789, session time 12.5, frame 500, second player 255
C10_Witness ==
    /\ pc = "client"
    /\ packet.py = "cdata"
    /\ packet.cls = "PacketCarStatusData"
    /\ GetAttr(GetAttr(packet, "m_header"), "m_packet_format") = PyInt(2021)
    /\ GetAttr(GetAttr(packet, "m_header"), "m_session_uid") = PyLong(<<52501, 1883, 0, 0>>)
    /\ GetAttr(GetAttr(packet, "m_header"), "m_session_time") = TwelveAndHalf
    /\ GetAttr(GetAttr(packet, "m_header"), "m_frame_identifier") = PyLong(<<500, 0>>)
    /\ GetAttr(GetAttr(packet, "m_header"), "m_secondary_player_car_index") = PyInt(255)

\* unpack has been given the bytes in buffer (and not the constructor used)
Decoded == pc = "codec" /\ packet # None /\ (IsRaise(packet) \/ buffer # <<>>)

\* C11: the header takes 23 bytes: decoding a header succeeds on the bytes
\* given to unpack when they are at least 23, and raises only when they are
\* fewer.
C11_HeaderTakes23Bytes ==
    Decoded => (Len(buffer) >= 23 <=> ~IsRaise(unpack("PacketHeader", buffer)))

\* C11 as the code has it: the header takes 24 bytes (2+1+1+1+1+8+4+4+1+1).
\* Decoding a header succeeds on the bytes given to unpack when they are at
\* least 24 and raises ValueError when they are fewer, 23 included, and a
\* header that was decoded was decoded from at least 24 bytes.
C11_HeaderTakes24Bytes ==
    /\ size("PacketHeader") = 24
    /\ Decoded =>
          /\ Len(buffer) >= 24 => unpack("PacketHeader", buffer).py = "cdata"
          /\ Len(buffer) < 24 => unpack("PacketHeader", buffer) = Raise("ValueError")
          /\ (packet.py = "cdata" /\ packet.cls = "PacketHeader") => Len(buffer) >= 24

\* unpack of the header has raised on 23 bytes
C11_Witness ==
    /\ Decoded
    /\ Len(buffer) = 23
    /\ packet = Raise("ValueError")
    /\ unpack("PacketHeader", buffer) = packet

\* C12: the motion packet takes 24 + 22 x CarMotionData.size() + 4 x 4 x 4
\* + 10 x 4 bytes (four wheel arrays): a motion packet that was decoded
\* packs to that many bytes.
C12_MotionSizeWithFourArrays ==
    (pc = "codec" /\ packet.py = "cdata" /\ packet.cls = "PacketMotionData"
       /\ out.py = "bytes")
    => Len(out.b) = 24 + 22 * size("CarMotionData") + 4 * 4 * 4 + 10 * 4

\* C12 as the code has it: the motion packet has the header, 22 car
\* records of 60 bytes, five 4-element float arrays and ten float scalars;
\* its size is 24 + 22 x CarMotionData.size() + 5 x 4 x 4 + 10 x 4 = 1464,
\* and that is the number of bytes a motion packet packs to.
C12_MotionSizeWithFiveArrays ==
    LET fs == classes["PacketMotionData"].fields
    IN  /\ size("CarMotionData") = 60
        /\ size("PacketMotionData")
             = 24 + 22 * size("CarMotionData") + 5 * 4 * 4 + 10 * 4
        /\ fs[1] = F("m_header", "PacketHeader", 0)
        /\ fs[2] = F("m_car_motion_data", "CarMotionData", 22)
        /\ Cardinality({i \in 1..Len(fs) : fs[i].ctype = "c_float" /\ fs[i].count = 4}) = 5
        /\ Cardinality({i \in 1..Len(fs) : fs[i].ctype = "c_float" /\ fs[i].count = 0}) = 10
        /\ Len(fs) = 17
        /\ (pc = "codec" /\ packet.py = "cdata" /\ packet.cls = "PacketMotionData"
              /\ out.py = "bytes")
           => Len(out.b) = 24 + 22 * 60 + 5 * 4 * 4 + 10 * 4

\* a motion packet has been decoded and packed to 1464 bytes
C12_Witness ==
    /\ pc = "codec"
    /\ packet.py = "cdata"
    /\ packet.cls = "PacketMotionData"
    /\ buffer # <<>>
    /\ out.py = "bytes"
    /\ Len(out.b) = 1464

\* C13: no padding anywhere.  For every Structure (the header, the nested
\* records, the 11 event shapes, the 12 packets) the first field is at
\* offset 0, every further field starts where the one before it ends
\* (an array field takes count x element size), and size() is where the
\* last field ends; the union of the event details is as large as its
\* widest shape, every shape starts at its byte 0, and it sits at offset 28
\* of the event packet.  A packed value has size() bytes.
C13_NoPadding ==
    LET fs(c)   == classes[c].fields
        w(c, i) == ElemSize(fs(c)[i].ctype)
                     * (IF fs(c)[i].count = 0 THEN 1 ELSE fs(c)[i].count)
        off(c)  == classes[c].offsets
        ev      == "PacketEventData"
        un      == "EventDataDetails"
    IN  /\ \A c \in Classes \ {un} :
              /\ off(c)[1] = 0
              /\ \A i \in 1..(Len(fs(c)) - 1) : off(c)[i + 1] = off(c)[i] + w(c, i)
              /\ size(c) = off(c)[Len(fs(c))] + w(c, Len(fs(c)))
        /\ Cardinality(Classes) = 1 + 1 + 13 + 11 + 12
        /\ {fs(un)[i].ctype : i \in 1..Len(fs(un))} = EventShapes
        /\ Cardinality(EventShapes) = 11
        /\ \A i \in 1..Len(fs(un)) : off(un)[i] = 0 /\ w(un, i) <= size(un)
        /\ \E i \in 1..Len(fs(un)) : w(un, i) = size(un)
        /\ off(ev)[FieldIndex(ev, "m_event_details")] = 28
        /\ size(ev) = 28 + size(un)
        /\ (pc = "codec" /\ packet.py = "cdata" /\ out.py = "bytes")
           => Len(out.b) = size(packet.cls)

\* an event packet has been decoded and packed: 36 bytes, the details in
\* the 8 bytes from offset 28 on
C13_Witness ==
    /\ pc = "codec"
    /\ packet.py = "cdata"
    /\ packet.cls = "PacketEventData"
    /\ buffer # <<>>
    /\ out.py = "bytes"
    /\ Len(out.b) = 36
    /\ GetAttr(packet, "m_event_details").py = "cdata"
    /\ GetAttr(packet, "m_event_details").raw = SubSeq(out.b, 29, 36)

\* C14: end-to-end dispatch.  When get has been given a datagram that
\* carries a registered (format, version, id) triple and at least as many
\* bytes as the registered class takes, it has returned an instance of
\* exactly that class over the datagram from its first byte on (header
\* included; the bytes after size() are not kept), whose ten header fields
\* read the values of the datagram's first 24 bytes, so that the triple of
\* its own header maps back to its class.  The packets save_packets keeps
\* are filed under the class their own header maps to.
C14_EndToEndDispatch ==
    /\ (/\ AfterGet
        /\ Len(buffer) >= 24
        /\ KeyAt(buffer) \in DOMAIN HEADER_FIELD_TO_PACKET_TYPE
        /\ Len(buffer) >= size(HEADER_FIELD_TO_PACKET_TYPE[KeyAt(buffer)]))
       => LET cls == HEADER_FIELD_TO_PACKET_TYPE[KeyAt(buffer)]
              h   == GetAttr(packet, "m_header")
              b   == buffer
          IN  /\ packet.py = "cdata"
              /\ packet.cls = cls
              /\ packet.raw = SubSeq(b, 1, size(cls))
              /\ h.py = "cdata" /\ h.cls = "PacketHeader"
              /\ GetAttr(h, "m_packet_format") = PyInt(b[1] + 256 * b[2])
              /\ GetAttr(h, "m_game_major_version") = PyInt(b[3])
              /\ GetAttr(h, "m_game_minor_version") = PyInt(b[4])
              /\ GetAttr(h, "m_packet_version") = PyInt(b[5])
              /\ GetAttr(h, "m_packet_id") = PyInt(b[6])
              /\ GetAttr(h, "m_session_uid")
                   = PyLong(<<b[7] + 256 * b[8], b[9] + 256 * b[10],
                              b[11] + 256 * b[12], b[13] + 256 * b[14]>>)
              /\ GetAttr(h, "m_session_time") = GetFloat(SubSeq(b, 15, 18))
              /\ GetAttr(h, "m_frame_identifier")
                   = PyLong(<<b[19] + 256 * b[20], b[21] + 256 * b[22]>>)
              /\ GetAttr(h, "m_player_car_index") = PyInt(b[23])
              /\ GetAttr(h, "m_secondary_player_car_index") = PyInt(b[24])
              /\ Cardinality(FieldNames("PacketHeader")) = 10
              /\ HEADER_FIELD_TO_PACKET_TYPE[HeaderKey(h)] = packet.cls
    /\ \A n \in DOMAIN samples :
          /\ samples[n].py = "cdata"
          /\ samples[n].cls = n
          /\ HeaderKey(GetAttr(samples[n], "m_header")) \in DOMAIN HEADER_FIELD_TO_PACKET_TYPE
          /\ HEADER_FIELD_TO_PACKET_TYPE[HeaderKey(GetAttr(samples[n], "m_header"))] = n

\* get has returned a lap data packet for a datagram one byte longer than
\* the class takes: session time 12.5, frame 500, uid 123456789
C14_Witness ==
    /\ AfterGet
    /\ packet.py = "cdata"
    /\ packet.cls = "PacketLapData"
    /\ Len(buffer) = size("PacketLapData") + 1
    /\ KeyAt(buffer) = <<2021, 1, 2>>
    /\ GetAttr(GetAttr(packet, "m_header"), "m_frame_identifier") = PyLong(<<500, 0>>)
    /\ GetAttr(GetAttr(packet, "m_header"), "m_session_uid") = PyLong(<<52501, 1883, 0, 0>>)
    /\ GetAttr(GetAttr(packet, "m_header"), "m_session_time") = FloatFin(0, 3, <<1, 0, 0, 1>>)

\* x == round(x, 3): the float is a whole number of thousandths.  A binary
\* float is one exactly when it has at most 3 binary places after the point
\* (1000 = 8 x 125); what round gave (kind "decimal") is one; inf and nan
\* are what round gives for them.
IsRounded3(x) ==
    IF x.kind = "finite" THEN Len(x.frac) - x.exp <= 3 ELSE TRUE

\* every float in a formatted value, at every depth, is rounded
RECURSIVE AllRounded(_)
AllRounded(v) ==
    CASE v.py = "float" -> IsRounded3(v)
      [] v.py = "list" -> \A k \in 1..Len(v.items) : AllRounded(v.items[k])
      [] v.py = "Array" -> \A k \in 1..Len(v.items) : AllRounded(v.items[k])
      [] v.py = "dict" -> \A k \in DOMAIN v.d : AllRounded(v.d[k])
      [] OTHER -> TRUE

\* C15: every float in the mapping to_dict gives is rounded to 3 decimal
\* places, at every depth: scalar fields, fields of nested records and the
\* elements of float arrays.
C15_EveryFloatRounded ==
    (pc = "codec" /\ packet.py = "cdata" /\ out.py = "dict") => AllRounded(out)

\* C16: a 48-byte name is formatted as the text of its bytes before the
\* first NUL, and pack still gives all 48 bytes.  For every participant of
\* a participants packet: in the mapping to_dict gives, m_name is the
\* decoded text of the bytes before the first NUL of the name's 48 bytes
\* (those bytes themselves when they are ASCII, all 48 when there is no
\* NUL), nothing of what follows the NUL; in the bytes pack gives, the 48
\* bytes of the name are the ones the value holds, which are the ones of
\* the buffer it was decoded from.
C16_NameUpToFirstNul ==
    (pc = "codec" /\ packet.py = "cdata" /\ packet.cls = "PacketParticipantsData") =>
        \A i \in 1..22 :
            LET pp   == "PacketParticipantsData"
                pd   == "ParticipantData"
                off  == classes[pp].offsets[FieldIndex(pp, "m_participants")]
                          + (i - 1) * size(pd)
                          + classes[pd].offsets[FieldIndex(pd, "m_name")]
                nb   == Slice(packet.raw, off, 48)
                nuls == {k \in 1..48 : nb[k] = 0}
                n    == IF nuls = {} THEN 49
                        ELSE CHOOSE k \in nuls : \A j \in nuls : k <= j
            IN  /\ out.py = "dict" =>
                     LET name == out.d["m_participants"].items[i].d["m_name"]
                     IN  /\ name = decode(SubSeq(nb, 1, n - 1))
                         /\ name.py = "str"
                         /\ Len(name.cp) <= n - 1
                         /\ (\A k \in 1..(n - 1) : nb[k] < 128)
                               => name.cp = SubSeq(nb, 1, n - 1)
                /\ out.py = "bytes" =>
                     /\ Slice(out.b, off, 48) = nb
                     /\ buffer # <<>> => Slice(out.b, off, 48) = Slice(buffer, off, 48)

\* a participants packet whose first name holds two letters, a NUL and
\* letters after it has been decoded and formatted: the name is the two
\* letters, and the value still packs to the four bytes
C16_Witness ==
    /\ pc = "codec"
    /\ packet.py = "cdata"
    /\ packet.cls = "PacketParticipantsData"
    /\ Len(buffer) = size("PacketParticipantsData")
    /\ Slice(buffer, 32, 4) = <<72, 73, 0, 75>>
    /\ out.py = "dict"
    /\ out.d["m_participants"].items[1].d["m_name"] = PyStr(<<72, 73>>)
    /\ Slice(pack(packet), 32, 4) = <<72, 73, 0, 75>>


\* C17: formatting is a pure view.  A step in which to_dict has been
\* called on a packet (out becomes the mapping, or the exception of a name
\* that is not UTF-8) leaves the packet, and so the bytes it packs to, the
\* class objects, the registry and the listener as they were; what it gave
\* is what a second call on the packet gives, and to_json (which is repr)
\* formats that same mapping.
C17_FormattingIsPureView ==
    [][(pc = "codec" /\ packet.py = "cdata"
          /\ (out'.py = "dict" \/ out' = Raise("UnicodeDecodeError")))
       => /\ packet' = packet
          /\ pack(packet') = pack(packet)
          /\ classes' = classes
          /\ HEADER_FIELD_TO_PACKET_TYPE' = HEADER_FIELD_TO_PACKET_TYPE
          /\ listener' = listener
          /\ out' = to_dict(packet)
          /\ to_dict(packet') = out'
          /\ IF IsRaise(out') THEN to_json(packet') = out'
             ELSE to_json(packet').doc = out' /\ to_json(packet') = to_json(packet)]_vars

\* a car telemetry packet decoded from a buffer that is not all zero has
\* been formatted: it still packs to the buffer
C17_Witness ==
    /\ pc = "codec"
    /\ packet.py = "cdata"
    /\ packet.cls = "PacketCarTelemetryData"
    /\ Len(buffer) = size("PacketCarTelemetryData")
    /\ buffer[Len(buffer)] # 0
    /\ out.py = "dict"
    /\ out = to_dict(packet)
    /\ pack(packet) = buffer

\* C18: the listener is bound to host '' and port 20777 when host and port
\* are not given, and to exactly the host and the port the caller gives,
\* whatever they are.  For every step that constructs a listener and for
\* every (host, port) the constructor may have been given in it, the
\* socket's address is that host ('' for None) and that port (20777 for
\* None).
C18_BoundAsGiven ==
    [][(pc = "start" /\ pc' = "client")
       => \A h \in Hosts, p \in Ports :
             listener' = TelemetryListener(h, p, TRUE)
             => /\ listener'.socket.host = (IF h = None THEN PyStr(<<>>) ELSE h)
                /\ listener'.socket.port = (IF p = None THEN PyInt(20777) ELSE p)]_vars

\* C19: a bind failure is fatal and never retried.  The constructor binds
\* once: a process at its start either gets the listener bound to the
\* address asked for, or, when the bind fails, the OSError (main's
\* _get_listener turns it into exit(127), or ends with the IndexError of
\* its message) and no listener; a listener
\* exists only with its socket bound, and after a failed bind the process
\* takes no further step: no second bind, no get.
C19_BindFailureIsFatal ==
    [][/\ pc \notin {"bind_error", "exit127"}
       /\ pc = "start" =>
             /\ listener = None
             /\ \/ pc' = "bind_error" /\ listener' = None /\ packet' = Raise("OSError")
                \/ pc' \in {"exit127", "traceback"} /\ listener' = None
                \/ /\ pc' \in {"client", "main_loop", "save_loop"}
                   /\ \E h \in Hosts, p \in Ports : listener' = TelemetryListener(h, p, TRUE)
             /\ \A h \in Hosts, p \in Ports :
                   ClientStart(h, p, FALSE)
                   => pc' = "bind_error" /\ listener' = None /\ packet' = Raise("OSError")
             /\ \A a \in OSErrorArgs :
                   (RunMain(FALSE, a) \/ RunSavePackets(FALSE, a))
                   => pc' \in {"exit127", "traceback"} /\ listener' = None
       /\ pc # "start" => listener' = listener
       /\ listener' # None => listener'.socket.open]_vars

\* the bind has failed in a client: it holds the OSError and no listener
C19_Witness ==
    /\ pc = "bind_error"
    /\ listener = None
    /\ packet = Raise("OSError")
    /\ buffer = <<>>

\* C20: each get consumes exactly one datagram and gives at most one
\* result.  The calls never outnumber the arrivals (get does not return
\* before a datagram is there); what is still queued is what arrived after
\* the datagrams the calls took, one each; the i-th result is what get
\* gives for the i-th datagram that arrived, whatever came before or after
\* it (equal datagrams give equal results; the bytes recv leaves of a long
\* datagram are not given to the next call).
C20_OneDatagramPerGet ==
    /\ Len(results) <= Len(arrived)
    /\ queue = SubSeq(arrived, Len(results) + 1, Len(arrived))
    /\ \A i \in 1..Len(results) :
          /\ results[i] = TelemetryListener_get(listener, InitialRegistry, arrived[i]).ret
          /\ Len(arrived[i]) < 24 => results[i] = Raise("ValueError")
          /\ (Len(arrived[i]) >= 24 /\ KeyAt(arrived[i]) \notin DOMAIN InitialRegistry)
                => results[i] = Raise("KeyError")
          /\ results[i].py = "cdata"
                => results[i].raw = SubSeq(arrived[i], 1, size(results[i].cls))
    /\ \A i, j \in 1..Len(results) : arrived[i] = arrived[j] => results[i] = results[j]
    /\ Len(results) > 0 =>
          /\ packet = results[Len(results)]
          /\ buffer = arrived[Len(results)]

\* three datagrams have arrived, the first longer than recv takes; two
\* calls of get have given a car telemetry packet and then the KeyError of
\* the second datagram, and the third datagram waits
C20_Witness ==
    /\ Len(arrived) = 3
    /\ Len(results) = 2
    /\ Len(arrived[1]) = RecvMax + 1
    /\ results[1].py = "cdata"
    /\ results[1].cls = "PacketCarTelemetryData"
    /\ Len(arrived[2]) >= 24
    /\ KeyAt(arrived[2]) = <<2021, 1, 12>>
    /\ results[2] = Raise("KeyError")
    /\ queue = <<arrived[3]>>

\* C21: to_json of a packet is built from its to_dict and lists the keys of
\* every mapping in sorted order; the module-level to_json sorts the keys
\* whatever sort_keys the caller passes, and indents by 2 only when the
\* caller passes no indent.  When to_json has been called on the mapping of
\* the packet: the document is to_dict of the packet, sort_keys is True,
\* indent is 2 exactly for the calls that give none (and to_json of the
\* packet itself is the call with no keyword); the keys of the packet, of
\* its header and of the first record of each of its arrays of records are
\* listed in ascending order of their code points.
C21_JsonSortedFromToDict ==
    (pc = "codec" /\ packet.py = "cdata" /\ out.py = "json") =>
        LET fs == classes[packet.cls].fields
            nested == {packet}
                      \cup {GetAttr(packet, fs[i].name) :
                               i \in {j \in 1..Len(fs) : ~IsPrim(fs[j].ctype) /\ fs[j].count = 0}}
                      \cup {GetAttr(packet, fs[i].name).items[1] :
                               i \in {j \in 1..Len(fs) : ~IsPrim(fs[j].ctype) /\ fs[j].count > 0}}
        IN  /\ out.doc = to_dict(packet)
            /\ out.sort_keys = TRUE
            /\ \E kw \in KwArgs : out = module_to_json(to_dict(packet), kw)
            /\ \A kw \in KwArgs :
                  out = module_to_json(to_dict(packet), kw)
                  => out.indent = (IF "indent" \in DOMAIN kw THEN kw.indent ELSE 2)
            /\ out.indent = 2 => out = to_json(packet)
            /\ to_json(packet) = module_to_json(to_dict(packet), EmptyDict)
            /\ \A x \in nested :
                  LET ks == json_keys(x, out.sort_keys)
                  IN  /\ {ks[i] : i \in 1..Len(ks)} = DOMAIN to_dict(x).d
                      /\ Len(ks) = Cardinality(DOMAIN to_dict(x).d)
                      /\ \A i \in 1..(Len(ks) - 1) : StrLess(ks[i], ks[i + 1])

\* to_json has been called with sort_keys = False and indent = 4 on the
\* mapping of a decoded header: the keys are sorted all the same, from
\* m_frame_identifier to m_session_uid, and the indent is 4
C21_Witness ==
    /\ pc = "codec"
    /\ packet.py = "cdata"
    /\ packet.cls = "PacketHeader"
    /\ buffer # <<>>
    /\ out.py = "json"
    /\ out.indent = 4
    /\ out.sort_keys = TRUE
    /\ json_keys(packet, out.sort_keys)[1] = "m_frame_identifier"
    /\ json_keys(packet, out.sort_keys)[10] = "m_session_uid"
    /\ classes["PacketHeader"].fields[1].name = "m_packet_format"

\* C22: the loop of main survives a datagram that does not decode: after a
\* get that raised (a triple that is not registered, a datagram shorter
\* than its class) main is still in its loop, to receive and print the
\* next datagram.
C22_MainSurvivesDecodeFailure ==
    [][(pc = "main_loop" /\ IsRaise(packet')) => pc' = "main_loop"]_vars

\* C23: while save_packets captures, a FinalClassification (id 8) or
\* LobbyInfo (id 9) datagram is skipped: the turn of the loop that receives
\* one (whole, of the size of its class) stores nothing in samples and
\* leaves save_packets in its loop.
C23_RemovedTypesAreSkipped ==
    [][\A d \in Datagrams :
          (/\ Len(d) >= 24
           /\ KeyAt(d) \in Removed
           /\ Len(d) >= Layout[InitialRegistry[KeyAt(d)]].size
           /\ SaveLoop(d))
          => pc' = "save_loop" /\ samples' = samples]_vars

\* C24: save_packets terminates.  When every datagram received decodes and
\* datagrams of each of the ten retained types keep arriving, the capture
\* loop ends and save_packets reaches its final 'Done!'; and it has left
\* the loop only with a sample of every retained type.
C24_SavePacketsTerminates ==
    /\ (pc = "save_loop") ~> (pc = "save_done")
    /\ [](pc = "save_done" =>
            DOMAIN samples = {InitialRegistry[k] : k \in (DOMAIN InitialRegistry) \ Removed})

\* C25: in the capture loop of save_packets, samples holds packets keyed by
\* the name of their own class (one per type), never one of
\* FinalClassification or LobbyInfo; the turn that receives a datagram of a
\* retained type stores its packet only when the type has no sample yet, so
\* the sample of a type is the first one received and is never replaced;
\* and the loop is left only with exactly the ten retained types.
C25_SamplesFirstOfEachType ==
    /\ [](pc \in {"save_loop", "save_done"} =>
            \A n \in DOMAIN samples :
               /\ samples[n].py = "cdata"
               /\ samples[n].cls = n
               /\ n \notin {InitialRegistry[k] : k \in Removed})
    /\ [][(pc = "save_loop" /\ pc' = "save_loop") =>
            \A n \in DOMAIN samples : n \in DOMAIN samples' /\ samples'[n] = samples[n]]_vars
    /\ [][\A d \in RetainedDatagrams :
            SaveLoop(d) =>
               samples'[InitialRegistry[KeyAt(d)]] =
                  IF InitialRegistry[KeyAt(d)] \in DOMAIN samples
                  THEN samples[InitialRegistry[KeyAt(d)]]
                  ELSE unpack(InitialRegistry[KeyAt(d)], d)]_vars
    /\ [][SaveWrite =>
            DOMAIN samples = {InitialRegistry[k] : k \in (DOMAIN InitialRegistry) \ Removed}]_vars

\* the capture has a Participants sample whose first driver name begins
\* with a letter, a second Participants datagram with other name bytes is
\* among those that arrive, and three more types have their sample
C25_Witness ==
    /\ pc = "save_loop"
    /\ Cardinality(DOMAIN samples) >= 4
    /\ "PacketParticipantsData" \in DOMAIN samples
    /\ \E d \in RetainedDatagrams :
          /\ InitialRegistry[KeyAt(d)] = "PacketParticipantsData"
          /\ unpack("PacketParticipantsData", d) # samples["PacketParticipantsData"]

\* C26: when the bind fails, whatever OSError it raises, _get_listener
\* ends the process with exit(127) and returns no listener: main and
\* save_packets stop there, with the registry as it was, and take no
\* further step (no get).
C26_BindFailureExits127 ==
    /\ [][\A a \in OSErrorArgs :
            (RunMain(FALSE, a) \/ RunSavePackets(FALSE, a))
            => /\ pc' = "exit127"
               /\ listener' = None
               /\ HEADER_FIELD_TO_PACKET_TYPE' = HEADER_FIELD_TO_PACKET_TYPE
               /\ packet' = packet]_vars
    /\ [][pc # "exit127"]_vars

\* C27: unpack takes a buffer longer than the class and decodes its first
\* size() bytes only.  A packet that was decoded from a buffer packs to the
\* prefix of the buffer of the class's size and is the packet that the
\* prefix alone decodes to, field by field and in its to_dict; and when the
\* buffer is a datagram of a registered type, get gives this packet for the
\* datagram and for its prefix.
C27_LongBufferDecodesPrefix ==
    (pc = "codec" /\ buffer # <<>> /\ packet.py = "cdata") =>
        LET cls == packet.cls
            pre == SubSeq(buffer, 1, size(cls))
            l   == TelemetryListener(None, None, TRUE)
        IN  /\ Len(buffer) >= size(cls)
            /\ pack(packet) = pre
            /\ Len(pack(packet)) = size(cls)
            /\ unpack(cls, pre).py = "cdata"
            /\ \A i \in 1..Len(classes[cls].fields) :
                  GetAttr(packet, classes[cls].fields[i].name)
                     = GetAttr(unpack(cls, pre), classes[cls].fields[i].name)
            /\ out.py = "bytes" => out.b = pre
            /\ out.py \in {"dict", "raise"} => out = to_dict(unpack(cls, pre))
            /\ (/\ Len(buffer) >= 24
                /\ KeyAt(buffer) \in DOMAIN InitialRegistry
                /\ InitialRegistry[KeyAt(buffer)] = cls)
               => /\ TelemetryListener_get(l, InitialRegistry, buffer).ret = packet
                  /\ TelemetryListener_get(l, InitialRegistry, pre).ret = packet

\* a car telemetry datagram with one byte after the packet has been
\* decoded and packed: what was packed is the datagram without that byte
C27_Witness ==
    /\ pc = "codec"
    /\ packet.py = "cdata"
    /\ packet.cls = "PacketCarTelemetryData"
    /\ Len(buffer) = size("PacketCarTelemetryData") + 1
    /\ KeyAt(buffer) = <<2021, 1, 6>>
    /\ buffer[Len(buffer)] # 0
    /\ out.py = "bytes"
    /\ Len(out.b) = Len(buffer) - 1

\* C28: formatting is total on the packets get returns.  When get has
\* returned a packet to the loop of main, whatever bytes its name fields
\* hold, to_dict, to_json and repr give their result without raising: the
\* packet is printed and main is still in its loop.
C28_FormattingIsTotal ==
    [][(pc = "main_loop" /\ pc' # "main_returned" /\ packet'.py = "cdata")
       => /\ ~IsRaise(to_dict(packet'))
          /\ ~IsRaise(to_json(packet'))
          /\ out' = [py |-> "print", text |-> to_json(packet')]
          /\ pc' = "main_loop"]_vars

\* C29: packets.py and cleaned_packets.py are layout-equivalent.  They
\* define the same classes; every class has in both the same number of
\* fields, with the same type and array length at every position, hence
\* the same offsets and the same size; the two registries are the same
\* mapping from the 12 keys to class names; and a buffer decoded with a
\* class of the one module and with the class of that name of the other
\* gives the same outcome, with equal values position by position.
C29_LayoutEquivalent ==
    /\ DOMAIN CleanedLayout = DOMAIN Layout
    /\ \A c \in DOMAIN Layout :
          /\ Len(CleanedLayout[c].fields) = Len(Layout[c].fields)
          /\ \A i \in 1..Len(Layout[c].fields) :
                /\ CleanedLayout[c].fields[i].ctype = Layout[c].fields[i].ctype
                /\ CleanedLayout[c].fields[i].count = Layout[c].fields[i].count
                /\ CleanedLayout[c].offsets[i] = Layout[c].offsets[i]
          /\ CleanedLayout[c].size = Layout[c].size
    /\ cleaned_HEADER_FIELD_TO_PACKET_TYPE = InitialRegistry
    /\ Cardinality(DOMAIN cleaned_HEADER_FIELD_TO_PACKET_TYPE) = 12
    /\ Len(results) = 2 =>
          /\ results[2].cls = results[1].cls
          /\ results[2].size = results[1].size
          /\ results[2].raised = results[1].raised
          /\ Len(results[2].values) = Len(results[1].values)
          /\ \A i \in 1..Len(results[1].values) : results[2].values[i] = results[1].values[i]

\* a car telemetry packet was decoded from the same buffer with both
\* modules: the second time its fields have the names of cleaned_packets.py
C29_Witness ==
    /\ pc = "codec"
    /\ Len(results) = 2
    /\ classes = CleanedLayout
    /\ packet.py = "cdata"
    /\ packet.cls = "CarTelemetryData"
    /\ classes["CarTelemetryData"].fields[15].name = "tyre_pressure"
    /\ Layout["CarTelemetryData"].fields[15].name = "m_tyres_pressure"
    /\ results[1].values[15].py = "Array"
    /\ results[2].values[15] = GetAttr(packet, "tyre_pressure")
    /\ ~results[1].raised

\* C30: PacketLoader loads from the directory it is configured with.  A
\* loader built with a path gives, at fetch_packets, one entry for each
\* *.pickle file of that directory; built without one (None, ''), one for
\* each *.pickle file of the directory of loader.py; the key of an entry is
\* the path of its file without '.pickle'; and a second fetch_packets gives
\* the same mapping.
C30_LoadsConfiguredDirectory ==
    [][\A p \in LoaderPaths :
          LoaderNew(p) =>
             LET dir == IF p = None \/ p = PyStr(<<>>) THEN ModuleDir ELSE p
             IN  \A names \in Listings(disk, listing, dir) :
                    LET files == glob(names, dir)
                        r     == fetch_packets(loader', names)
                    IN  /\ ~IsRaise(r.ret)
                        /\ r.ret.py = "dict"
                        /\ DOMAIN r.ret.d =
                              {PyStr(replace_pickle(files[i].cp)) : i \in DOMAIN files}
                        /\ Cardinality(DOMAIN r.ret.d) = Len(files)
                        /\ fetch_packets(r.self, names).ret = r.ret]_vars
====
